---------------------------- MODULE Spec2Model ----------------------------
(***************************************************************************)
(* Boot-to-kernel handoff of the polished operating system.                *)
(*                                                                         *)
(*   bootloader : boot_system -> load_kernel -> initialize_framebuffer     *)
(*                -> "mov rdi, fb_ptr ; call kernel_entry"                 *)
(*   kernel     : naked_start -> kernel_entry -> hlt loop                  *)
(*   kernel_entry : init_allocator -> init_gdt -> init_interrupts          *)
(*                -> ps2_init -> interrupts::enable -> sti -> hlt loop     *)
(*   handlers   : CPU exceptions (print, then cli / hlt for ever), timer   *)
(*                and keyboard (print, end-of-interrupt, iretq)            *)
(*                                                                         *)
(* The file at the kernel path, the firmware page allocator, the graphics  *)
(* protocol, the compiler's register allocation for the inline assembly    *)
(* and the interrupt controller are the environment; their outcomes are    *)
(* chosen nondeterministically.                                            *)
(***************************************************************************)
EXTENDS Integers, Sequences, FiniteSets, TLC

VARIABLES
    disk,          \* what read_file finds at the kernel path: NoFile or a file
    build,         \* "debug" / "release" once an overflow has shown which, "any" before
    bpc,           \* position of the bootloader (main / boot_system / load_kernel)
    phIdx,         \* load_kernel: 1-based index of the next program header
    seg,           \* load_kernel: locals of the loop body's latest iteration
    log,           \* firmware calls, memory writes and diagnostics, in program order
    failure,       \* why the bootloader stopped, "none" while it has not
    entry_point,   \* boot_system: first component of load_kernel's result
    kernel_entry,  \* boot_system: second component, the callable pointer
    framebuffer_info, \* boot_system: address of the local holding the description
    rdi,           \* first-argument register
    callTarget,    \* register operand of the "call" instruction
    kpc,           \* position of the loaded image's code, "none" before the call
    interrupt_flag, \* the CPU's interrupt-enable flag (RFLAGS.IF)
    gdtLoaded,     \* lgdt executed by init_gdt
    idtLoaded,     \* lidt executed by init_idt
    heapInit,      \* number of ALLOCATOR.lock().init calls
    irq,           \* device interrupt handler in progress, "none" otherwise
    GDT,           \* gdt crate: `static mut GDT: OnceCell<..>`
    TSS,           \* gdt crate: `static mut TSS: OnceCell<TaskStateSegment>`
    IDT,           \* interrupts crate: `static mut IDT: OnceCell<..>`
    IST_STACKS,    \* address of `static mut IST_STACKS`
    tr,            \* the CPU's task register
    segment_registers, \* the CPU's CS, SS, DS and ES
    heap,          \* the arena handed to ALLOCATOR
    ktrace,        \* what the kernel's initializers did, in program order
    serial,        \* what was written to the serial port, in order
    exc,           \* CPU exception being handled, NoExc otherwise
    dev,           \* device interrupt handler: scancode, steps of the latest run, count
    LOGGING_ENABLED, \* serial_logging crate: `static mut LOGGING_ENABLED: bool`
    mem,           \* bytes of the memory a library routine works on, by address
    call           \* library routine called directly: name, arguments, result, count

loaderVars == <<phIdx, seg, entry_point, kernel_entry>>
bootVars   == <<bpc, failure, framebuffer_info, rdi, callTarget>>
libVars    == <<LOGGING_ENABLED, mem, call>>
kernelVarsButLib == <<kpc, interrupt_flag, gdtLoaded, idtLoaded, heapInit, irq, GDT, TSS, IDT,
                      IST_STACKS, tr, segment_registers, heap, ktrace, exc, dev>>
kernelData == <<GDT, TSS, IDT, IST_STACKS, tr, segment_registers, heap, ktrace, serial, exc, dev,
                libVars>>
kernelVars == <<kpc, interrupt_flag, gdtLoaded, idtLoaded, heapInit, irq, kernelData>>
vars == <<disk, build, log, loaderVars, bootVars, kernelVars>>

----------------------------------------------------------------------------
(* Bounds of the model *)

\* Longest program-header table of an image on the disk.
MaxProgramHeaders == 2

\* Width in bits of usize in the model.  The target's usize has 64 bits; the
\* model checker's integers have 32, so the word is scaled.  Every address of
\* the model lies below 2^UsizeBits and the wrap-around of usize arithmetic
\* is the same at every width.
UsizeBits == 24

UsizeModulus == 2 ^ UsizeBits

----------------------------------------------------------------------------
(* Program constants *)

\* `virt_addr & !0xFFF`
PageOffsetMask == 4095

\* `total_size.div_ceil(0x1000)`
PageSize == 4096

----------------------------------------------------------------------------
(* Integer helpers *)

RECURSIVE BitAnd(_, _)
BitAnd(a, b) ==
    IF a = 0 \/ b = 0 THEN 0
    ELSE (a % 2) * (b % 2) + 2 * BitAnd(a \div 2, b \div 2)

\* `!m` on usize: every bit of the word flipped.
BitNot(m) == (UsizeModulus - 1) - m

\* usize addition in a release build (wrapping).
WrappingAdd(a, b) == (a + b) % UsizeModulus

\* usize addition overflows.
AddOverflows(a, b) == a + b >= UsizeModulus

\* usize::div_ceil: quotient, plus one when there is a remainder.
div_ceil(a, b) ==
    LET d == a \div b
        r == a % b
    IN  IF r > 0 THEN d + 1 ELSE d

----------------------------------------------------------------------------
(* The disk: what the firmware file system holds at the kernel path *)

NoFile == [present |-> FALSE, elf |-> FALSE, entry |-> 0, code |-> "returns", ph |-> <<>>]

\* Length in bytes of every file on the disk.
FileLen == 16384

\* Address of boot_system's local `framebuffer_info` on the bootloader's stack.
FramebufferInfoPtr == 1044480

\* Program headers an image may carry: [type, offset, file_size, mem_size,
\* virtual_addr, execute].  "Unknown" is a p_type for which get_type() is Err.
Ph(t, off, fsz, msz, va, x) ==
    [type |-> t, offset |-> off, file_size |-> fsz, mem_size |-> msz,
     virtual_addr |-> va, execute |-> x]

ProgramHeaders ==
    { Ph("Load",    4096,  100, 4096, 2101248, TRUE),    \* 0x20_1000, page aligned, .bss tail
      Ph("Load",    8192,   32,   64, 2105328, FALSE),   \* 0x20_1FF0, crosses a page
      Ph("Load",   12288,   64,   64, 2113536, FALSE),   \* 0x20_4000, no .bss tail
      Ph("Load",   12288,   64,    8, 2121712, TRUE),    \* 0x20_5FF0, file_size > mem_size
      Ph("Load",    4096,    0,    0, 2125824, FALSE),   \* 0x20_7000, empty segment
      Ph("Load",   20480,   16,   16, 2129920, FALSE),   \* offset beyond the end of the file
      Ph("Load",    4096,   16, UsizeModulus - 16, 2134000, FALSE), \* mem_size close to usize::MAX
      Ph("Dynamic", 4096,   16,   16, 2138112, TRUE),
      Ph("Note",    4096,   16,   16, 2142208, TRUE),
      Ph("Unknown", 4096,   16,   16, 2146304, TRUE) }

EntryPoints == { 2101248, 2101280 }

\* What the code at the image's entry address does:
\*   "naked_start"          this repository's kernel (naked_start calls kernel_entry)
\*   "naked_start_returns"  naked_start linked against a kernel_entry that returns
\*   "returns"              an image whose entry code returns to its caller
EntryCode == { "naked_start", "naked_start_returns", "returns" }

RECURSIVE SeqsUpTo(_, _)
SeqsUpTo(S, n) ==
    IF n = 0 THEN { <<>> }
    ELSE LET shorter == SeqsUpTo(S, n - 1)
         IN  shorter \cup { Append(s, x) : s \in { t \in shorter : Len(t) = n - 1 }, x \in S }

ElfImages ==
    { [present |-> TRUE, elf |-> TRUE, entry |-> e, code |-> c, ph |-> p] :
        e \in EntryPoints, c \in EntryCode, p \in SeqsUpTo(ProgramHeaders, MaxProgramHeaders) }

\* A file that is not a well-formed ELF image.
GarbageFile == [present |-> TRUE, elf |-> FALSE, entry |-> 0, code |-> "returns", ph |-> <<>>]

Disks == { NoFile, GarbageFile } \cup ElfImages

----------------------------------------------------------------------------
(* The log *)

Ev(op, ph, addr, len, src, kind) ==
    [op |-> op, ph |-> ph, addr |-> addr, len |-> len, src |-> src, kind |-> kind]

NoSeg == [ph |-> 0, aligned_virt_addr |-> 0, page_offset |-> 0, total_size |-> 0,
          num_pages |-> 0, mem_type |-> "none"]

----------------------------------------------------------------------------
(* load_kernel: the pure parts of the loop body *)

\* `ph.get_type().ok()`: None when the type field cannot be decoded.
GetTypeOk(ph) == IF ph.type = "Unknown" THEN "None" ELSE ph.type

\* `ph_type == Some(program::Type::Dynamic)`
IsDynamic(ph) == GetTypeOk(ph) = "Dynamic"

\* Mutant of IsLoad: the dynamic header is not told apart from a loadable one.
IsLoadOrDynamic(ph) == GetTypeOk(ph) \in { "Load", "Dynamic" }

\* negation of `ph_type != Some(program::Type::Load)`
IsLoad(ph) == GetTypeOk(ph) = "Load"

\* Mutant of aligned_virt_addr: the address is not masked.
aligned_virt_addr_unmasked(virt_addr) == virt_addr

\* `virt_addr & !0xFFF`
aligned_virt_addr(virt_addr) == BitAnd(virt_addr, BitNot(PageOffsetMask))

\* `virt_addr - aligned_virt_addr`
page_offset(virt_addr) == virt_addr - aligned_virt_addr(virt_addr)

\* Mutant of num_pages: one page more than the whole pages of total_size.
num_pages_one_more(total_size) == (total_size \div PageSize) + 1

\* `total_size.div_ceil(0x1000)`
num_pages(total_size) == div_ceil(total_size, PageSize)

\* Mutant of mem_type: the two branches swapped.
mem_type_swapped(ph) == IF ph.execute THEN "LOADER_DATA" ELSE "LOADER_CODE"

\* `if ph.flags().is_execute() { LOADER_CODE } else { LOADER_DATA }`
mem_type(ph) == IF ph.execute THEN "LOADER_CODE" ELSE "LOADER_DATA"

\* The locals of one iteration up to the allocation request, given the value
\* of `page_offset + mem_size`.
SegmentLocals(i, ph, total_size) ==
    [ph |-> i,
     aligned_virt_addr |-> aligned_virt_addr(ph.virtual_addr),
     page_offset |-> page_offset(ph.virtual_addr),
     total_size |-> total_size,
     num_pages |-> num_pages(total_size),
     mem_type |-> mem_type(ph)]

\* `boot::allocate_pages(AllocateType::Address(aligned_virt_addr), mem_type, num_pages)`
AllocateEvent(s, ok) ==
    Ev("allocate_pages", s.ph, s.aligned_virt_addr, s.num_pages, 0,
       IF ok THEN s.mem_type ELSE "Err")

\* Mutant of SegmentWrites: the zero-fill covers mem_size bytes instead of
\* mem_size - file_size.
SegmentWritesZeroMemSize(i, ph, dest_ptr, po) ==
    <<Ev("copy", i, dest_ptr + po, ph.file_size, ph.offset, "file")>>
    \o (IF ph.mem_size > ph.file_size
        THEN <<Ev("zero", i, dest_ptr + po + ph.file_size, ph.mem_size, 0, "0")>>
        ELSE <<>>)

\* The unsafe block: copy_nonoverlapping, then write_bytes when mem_size > file_size.
SegmentWrites(i, ph, dest_ptr, po) ==
    <<Ev("copy", i, dest_ptr + po, ph.file_size, ph.offset, "file")>>
    \o (IF ph.mem_size > ph.file_size
        THEN <<Ev("zero", i, dest_ptr + po + ph.file_size,
                  ph.mem_size - ph.file_size, 0, "0")>>
        ELSE <<>>)

\* The bytes the unsafe block writes stay inside the pages just allocated.
WritesInAllocation(s, w) ==
    \A k \in 1..Len(w) :
        /\ s.aligned_virt_addr <= w[k].addr
        /\ w[k].addr + w[k].len <= s.aligned_virt_addr + s.num_pages * PageSize

\* Mutant of EntryPointOf: the entry is taken to be the start of the first segment.
EntryPointOfFirstHeader(elf) ==
    IF Len(elf.ph) > 0 THEN elf.ph[1].virtual_addr % UsizeModulus ELSE elf.entry % UsizeModulus

\* `elf.header.pt2.entry_point() as usize`
EntryPointOf(elf) == elf.entry % UsizeModulus

\* `core::mem::transmute(entry_point)`: the same bits, typed as a function pointer.
Transmute(addr) == addr

----------------------------------------------------------------------------
(* The kernel's tables: GDT, TSS and IDT, each in a OnceCell *)

\* `const IST_ENTRIES: usize = 3`
IST_ENTRIES == 3

\* `const IST_STACK_SIZE: usize = 4096 * 2`
IST_STACK_SIZE == 4096 * 2

\* Addresses at which the linker may place `static mut IST_STACKS` (16-aligned).
IstStacksAddrs == { 3145744, 3211264 }

\* `heap_start` and `heap_size` of init_allocator
heap_start == 268435456

heap_size == 16777216

\* The 256 slots of the vector table.
Vectors == 0..255

\* The CPU-exception vectors.
ExceptionVectors == 0..31

\* An empty OnceCell of each kind.  `gen` counts the runs of the cell's builder.
EmptyTSS == [set |-> FALSE, gen |-> 0, interrupt_stack_table |-> [i \in 0..6 |-> 0]]

EmptyGDT == [set |-> FALSE, gen |-> 0, descriptors |-> <<>>, selectors |-> <<>>]

\* `Entry::missing()`: not present, no handler, no stack index (bits 0..3 are 0).
MissingEntry == [present |-> FALSE, handler |-> "missing", ist |-> 0]

EmptyIDT == [set |-> FALSE, gen |-> 0, entries |-> [v \in Vectors |-> MissingEntry]]

\* Mutant of get_or_init: the builder runs on every call.
get_or_init_always(cell, built) == [cell |-> built, ran |-> TRUE]

\* `OnceCell::get_or_init`: the builder runs only while the cell is empty.
get_or_init(cell, built) ==
    IF cell.set THEN [cell |-> cell, ran |-> FALSE] ELSE [cell |-> built, ran |-> TRUE]

\* `&IST_STACKS.0[i] as *const u8 as u64`
stack_start(base, i) == base + i * IST_STACK_SIZE

\* `stack_start + IST_STACK_SIZE as u64`
stack_end(base, i) == stack_start(base, i) + IST_STACK_SIZE

\* The closure of get_tss: TaskStateSegment::new(), then slots 1 and 2 of
\* `interrupt_stack_table` (a zero-based array of seven).
TssBuilder(cell, base) ==
    [set |-> TRUE, gen |-> cell.gen + 1,
     interrupt_stack_table |->
        [i \in 0..6 |-> IF i \in { 1, 2 } THEN stack_end(base, i) ELSE 0]]

TssBuilderEvents == <<"TaskStateSegment::new", "interrupt_stack_table[1]", "interrupt_stack_table[2]">>

\* get_tss: the cell after the call and what the call did.
get_tss(cell, base) ==
    LET r == get_or_init(cell, TssBuilder(cell, base))
    IN  [TSS |-> r.cell,
         events |-> <<"get_tss">> \o (IF r.ran THEN TssBuilderEvents ELSE <<>>)]

\* `gdt.append(d)`: the selector has the descriptor's index and privilege level.
Selector(index, rpl) == [index |-> index, rpl |-> rpl]

\* The closure of init_gdt: four segment descriptors, then the descriptor of
\* the task-state segment get_tss returns.
GdtBuilder(cell) ==
    [set |-> TRUE, gen |-> cell.gen + 1,
     descriptors |-> <<"kernel_code_segment", "kernel_data_segment",
                       "user_code_segment", "user_data_segment", "tss_segment">>,
     selectors |-> <<Selector(1, 0), Selector(2, 0), Selector(3, 3), Selector(4, 3)>>]

\* Mutant of init_gdt_calls: the table is loaded and the segment registers
\* are set before the task-state segment is built.
init_gdt_calls_tss_last(gdt, tss, base) ==
    LET r == get_or_init(gdt, GdtBuilder(gdt))
        t == IF r.ran THEN get_tss(tss, base) ELSE [TSS |-> tss, events |-> <<>>]
    IN  [GDT |-> r.cell,
         TSS |-> t.TSS,
         events |-> <<"init_gdt">>
                    \o (IF r.ran THEN <<"GlobalDescriptorTable::new", "gdt.append x4">> ELSE <<>>)
                    \o <<"gdt.load", "CS::set_reg", "SS::set_reg", "DS::set_reg", "ES::set_reg">>
                    \o t.events
                    \o (IF r.ran THEN <<"gdt.append tss_segment">> ELSE <<>>)]

\* init_gdt: GDT.get_or_init (whose closure calls get_tss), gdt.load(), then
\* the four segment registers.
init_gdt_calls(gdt, tss, base) ==
    LET r == get_or_init(gdt, GdtBuilder(gdt))
        t == IF r.ran THEN get_tss(tss, base) ELSE [TSS |-> tss, events |-> <<>>]
    IN  [GDT |-> r.cell,
         TSS |-> t.TSS,
         events |-> <<"init_gdt">>
                    \o (IF r.ran THEN <<"GlobalDescriptorTable::new", "gdt.append x4">> ELSE <<>>)
                    \o t.events
                    \o (IF r.ran THEN <<"gdt.append tss_segment">> ELSE <<>>)
                    \o <<"gdt.load", "CS::set_reg", "SS::set_reg", "DS::set_reg", "ES::set_reg">>]

\* Mutant of set_segment_registers: ES keeps the selector it had.
set_segment_registers_without_es(regs, selectors) ==
    [cs |-> selectors[1], ss |-> selectors[2], ds |-> selectors[2], es |-> regs.es]

\* init_gdt after gdt.load(): `CS::set_reg(selectors[0])`, then SS, DS and ES
\* from `selectors[1]`.
set_segment_registers(regs, selectors) ==
    [cs |-> selectors[1], ss |-> selectors[2], ds |-> selectors[2], es |-> selectors[2]]

\* `entry.set_handler_fn(h)`: the gate is present and points at h.
set_handler_fn(e, h) == [e EXCEPT !.present = TRUE, !.handler = h]

\* `options.set_stack_index(index)`: the gate's IST bits are index + 1; the
\* CPU reads 0 as "no stack switch" and k > 0 as slot k of the task-state
\* segment, which is `interrupt_stack_table[k - 1]`.
set_stack_index(e, index) == [e EXCEPT !.ist = index + 1]

\* The handlers setup_cpu_exceptions installs, by vector.
CpuExceptionHandlers ==
    { <<8, "double_fault_handler">>, <<2, "non_maskable_interrupt_handler">>,
      <<0, "divide_by_zero_handler">>, <<13, "general_protection_fault_handler">>,
      <<1, "debug_handler">>, <<3, "breakpoint_handler">>, <<4, "overflow_handler">>,
      <<5, "bound_range_exceeded_handler">>, <<6, "invalid_opcode_handler">>,
      <<7, "device_not_available_handler">>, <<10, "invalid_tss_handler">>,
      <<11, "segment_not_present_handler">>, <<12, "stack_segment_fault_handler">>,
      <<14, "page_fault_handler">>, <<16, "x87_floating_point_handler">>,
      <<17, "alignment_check_handler">>, <<18, "machine_check_handler">>,
      <<19, "simd_floating_point_handler">>, <<20, "virtualization_exception_handler">> }

\* The vectors of `idt.double_fault` and `idt.non_maskable_interrupt`.
DoubleFaultVector == 8

NmiVector == 2

\* Mutant of ExceptionStackIndex: both vectors are given stack index 1.
ExceptionStackIndexBothOne(v) == IF v \in { DoubleFaultVector, NmiVector } THEN 1 ELSE -1

\* The argument of `.set_stack_index(..)` for a vector, -1 where it is not called.
ExceptionStackIndex(v) ==
    IF v = DoubleFaultVector THEN 1 ELSE IF v = NmiVector THEN 2 ELSE -1

setup_cpu_exceptions(entries) ==
    [v \in Vectors |->
        IF \E p \in CpuExceptionHandlers : p[1] = v
        THEN LET h == (CHOOSE p \in CpuExceptionHandlers : p[1] = v)[2]
                 e == set_handler_fn(entries[v], h)
             IN  IF ExceptionStackIndex(v) >= 0
                 THEN set_stack_index(e, ExceptionStackIndex(v))
                 ELSE e
        ELSE entries[v]]

\* The handlers setup_hardware_interrupts installs, by vector.
HardwareInterruptHandlers ==
    { <<32, "timer_interrupt_handler">>, <<33, "keyboard_interrupt_handler">>,
      <<44, "mouse_interrupt_handler">>, <<46, "disk_interrupt_handler">>,
      <<43, "network_interrupt_handler">>, <<55, "usb_interrupt_handler">>,
      <<47, "other_hardware_interrupt_handler">> }

setup_hardware_interrupts(entries) ==
    [v \in Vectors |->
        IF \E p \in HardwareInterruptHandlers : p[1] = v
        THEN set_handler_fn(entries[v], (CHOOSE p \in HardwareInterruptHandlers : p[1] = v)[2])
        ELSE entries[v]]

\* The closure of init_idt.
IdtBuilder(cell) ==
    [set |-> TRUE, gen |-> cell.gen + 1,
     entries |-> setup_hardware_interrupts(setup_cpu_exceptions(EmptyIDT.entries))]

\* init_idt: IDT.get_or_init, then idt.load().
init_idt_calls(idt) ==
    LET r == get_or_init(idt, IdtBuilder(idt))
    IN  [IDT |-> r.cell,
         events |-> <<"init_idt">>
                    \o (IF r.ran
                        THEN <<"InterruptDescriptorTable::new", "setup_cpu_exceptions",
                               "setup_hardware_interrupts">>
                        ELSE <<>>)
                    \o <<"idt.load">>]

----------------------------------------------------------------------------
(* The diagnostic channel *)

\* One write to the serial port: who wrote it ("main", "irq", "exc") and what.
Out(by, s) == [by |-> by, s |-> s]

\* `serial_write_str(s)`: nothing while logging is disabled.
serial_write_str(by, s) == IF ~LOGGING_ENABLED THEN <<>> ELSE <<Out(by, s)>>

\* `serial_write_byte(byte)`: nothing while logging is disabled.
serial_write_byte(by, byte) == IF ~LOGGING_ENABLED THEN <<>> ELSE <<Out(by, byte)>>

\* The digit characters of serial_write_hex.
HexDigit(d) == SubSeq("0123456789ABCDEF", d + 1, d + 1)

\* The digits serial_write_hex puts in buf, most significant first.
RECURSIVE HexDigits(_)
HexDigits(value) ==
    IF value = 0 THEN "" ELSE HexDigits(value \div 16) \o HexDigit(value % 16)

\* `serial_write_hex(value)`: nothing while logging is disabled, "0" for zero,
\* the digits without leading zeros otherwise.
serial_write_hex(by, value) ==
    IF ~LOGGING_ENABLED THEN <<>>
    ELSE IF value = 0 THEN serial_write_str(by, "0")
    ELSE serial_write_str(by, HexDigits(value))

\* `serial_log!(level, "{}", text)`: the level, the text, the line end, as
\* three serial_write_str calls.
serial_log(by, level, text) ==
    serial_write_str(by, level) \o serial_write_str(by, text) \o serial_write_str(by, "\r\n")

\* `serial_log_hex!(level, value)`
serial_log_hex(by, level, value) ==
    serial_write_str(by, level) \o serial_write_str(by, "0x")
    \o serial_write_hex(by, value) \o serial_write_str(by, "\r\n")

\* `info_hex(value)`
info_hex(by, value) == serial_log_hex(by, "[INFO] ", value)

\* `_print(args)`: through SERIAL1, with interrupts off; the switch is not read.
_print(by, text) == <<Out(by, text)>>

\* `info(text)`
info(by, text) == serial_log(by, "[INFO] ", text)

\* `warn(text)`
warn(by, text) == serial_log(by, "[WARNING] ", text)

\* `error(text)`
error(by, text) == serial_log(by, "[ERROR] ", text)

\* `kprint!(line)`: the whole line through DebugSerial.
kprint(by, line) == <<Out(by, line)>>

\* The handlers that end in `panic!` instead of the halt loop.
PanickingHandlers == { "general_protection_fault_handler", "double_fault_handler" }

\* The format strings of a handler's kprint! calls, in program order.
HandlerLines(h) ==
    CASE h = "divide_by_zero_handler" ->
          <<"[ERROR] EXCEPTION: DIVIDE BY ZERO\r\n",
            "[SUGGESTION] Possible cause: Division by zero. Solution: Check divisor before division.\r\n">>
      [] h = "general_protection_fault_handler" ->
          <<"[ERROR] General Protection Fault: {:#?}\r\n",
            "[ERROR] Error Code: {:#x}\r\n",
            "[SUGGESTION] Possible cause: Invalid memory access or segment. Solution: Check segment selectors and memory accesses.\r\n">>
      [] h = "double_fault_handler" ->
          <<"[SUGGESTION] Possible cause: Exception during exception handling. Solution: Check stack overflows and handler correctness.\r\n">>
      [] h = "debug_handler" ->
          <<"[DEBUG] Debug Exception: {:#?}\r\n",
            "[SUGGESTION] Possible cause: Debug exception (breakpoint, single-step). Solution: Check debug registers and breakpoints.\r\n">>
      [] h = "non_maskable_interrupt_handler" ->
          <<"[NMI] Non-Maskable Interrupt: {:#?}\r\n",
            "[SUGGESTION] Possible cause: Hardware failure or NMI source. Solution: Check hardware and NMI sources.\r\n">>
      [] h = "breakpoint_handler" ->
          <<"[DEBUG] Breakpoint Exception: {:#?}\r\n",
            "[SUGGESTION] Possible cause: Breakpoint instruction (int3). Solution: Check for intentional breakpoints.\r\n">>
      [] h = "overflow_handler" ->
          <<"[ERROR] Stack Overflow: {:#?}\r\n",
            "[SUGGESTION] Possible cause: INTO instruction overflow. Solution: Check arithmetic operations for overflow.\r\n">>
      [] h = "bound_range_exceeded_handler" ->
          <<"[ERROR] Bound Range Exceeded: {:#?}\r\n",
            "[SUGGESTION] Possible cause: BOUND instruction out of range. Solution: Check array bounds.\r\n">>
      [] h = "invalid_opcode_handler" ->
          <<"[ERROR] Invalid Opcode: {:#?}\r\n",
            "[SUGGESTION] Possible cause: Invalid or undefined instruction. Solution: Check for unsupported CPU instructions.\r\n">>
      [] h = "device_not_available_handler" ->
          <<"[ERROR] Device Not Available: {:#?}\r\n",
            "[SUGGESTION] Possible cause: FPU or device not available. Solution: Check FPU usage and TS flag.\r\n">>
      [] h = "invalid_tss_handler" ->
          <<"[ERROR] Invalid TSS: {:#?}\r\n",
            "[ERROR] Error Code: {:#x}\r\n",
            "[SUGGESTION] Possible cause: Invalid Task State Segment. Solution: Check TSS setup and task switching.\r\n">>
      [] h = "segment_not_present_handler" ->
          <<"[ERROR] Segment Not Present: {:#?}\r\n",
            "[ERROR] Error Code: {:#x}\r\n",
            "[SUGGESTION] Possible cause: Segment not present in memory. Solution: Check segment descriptors.\r\n">>
      [] h = "stack_segment_fault_handler" ->
          <<"[ERROR] Stack Segment Fault: {:#?}\r\n",
            "[ERROR] Error Code: {:#x}\r\n",
            "[SUGGESTION] Possible cause: Stack segment error. Solution: Check stack pointers and segment limits.\r\n">>
      [] h = "page_fault_handler" ->
          <<"[ERROR] Page Fault: {:#?}\r\n",
            "[ERROR] Error Code: {:?}\r\n",
            "[SUGGESTION] Possible cause: Invalid memory access. Solution: Check page tables and memory accesses.\r\n">>
      [] h = "x87_floating_point_handler" ->
          <<"[ERROR] x87 Floating Point Exception: {:#?}\r\n",
            "[SUGGESTION] Possible cause: x87 FPU error. Solution: Check floating point operations.\r\n">>
      [] h = "alignment_check_handler" ->
          <<"[ERROR] Alignment Check Exception: {:#?}\r\n",
            "[ERROR] Error Code: {:#x}\r\n",
            "[SUGGESTION] Possible cause: Unaligned memory access. Solution: Check data alignment.\r\n">>
      [] h = "machine_check_handler" ->
          <<"[ERROR] Machine Check Exception: {:#?}\r\n",
            "[SUGGESTION] Possible cause: Hardware error. Solution: Check hardware status and logs.\r\n">>
      [] h = "simd_floating_point_handler" ->
          <<"[ERROR] SIMD Floating Point Exception: {:#?}\r\n",
            "[SUGGESTION] Possible cause: SIMD FPU error. Solution: Check SIMD operations.\r\n">>
      [] h = "virtualization_exception_handler" ->
          <<"[ERROR] Virtualization Exception: {:#?}\r\n",
            "[SUGGESTION] Possible cause: Virtualization instruction error. Solution: Check virtualization support and usage.\r\n">>

\* `print_panic_info_serial(info)` for a panic whose message has format
\* arguments (`message().as_str()` is None) and whose location is known; the
\* release-build warning is compiled in without debug assertions.
print_panic_info_serial(by, profile) ==
    serial_write_str(by, "=== PANIC ===\n")
    \o (IF profile = "release"
        THEN serial_write_str(by, "[WARNING] This is a release build, panic information may be limited.\n")
        ELSE <<>>)
    \o serial_write_str(by, "Location: ")
    \o serial_write_str(by, "file") \o serial_write_str(by, ":")
    \o serial_write_str(by, "line") \o serial_write_str(by, ":")
    \o serial_write_str(by, "column") \o serial_write_str(by, "\n")
    \o serial_write_str(by, "Message: <none>\n")
    \o serial_write_str(by, "=============\n")
    \o serial_write_str(by, "\n\n")

\* The panic handler up to its halt loop.
panic(by, profile) ==
    error(by, "Kernel panic occurred!") \o print_panic_info_serial(by, profile)

\* Mutant of HandlerOutput: the handler writes nothing.
HandlerOutputSilent(h, profile) == <<>>

\* What a CPU-exception handler writes before it stops: its kprint! lines
\* and, for the handlers that panic, the panic handler's report.
HandlerOutput(h, profile) ==
    [k \in 1..Len(HandlerLines(h)) |-> kprint("exc", HandlerLines(h)[k])[1]]
    \o (IF h \in PanickingHandlers THEN panic("exc", profile) ELSE <<>>)

\* PS2_SET1 at the scancodes of the model, 0 elsewhere in the table.
PS2_SET1_LEN == 89

PS2_SET1(scancode) ==
    CASE scancode = 1  -> 27      \* 0x1B
      [] scancode = 28 -> 10      \* '\n'
      [] scancode = 29 -> 256     \* 0x0100, KeyCtrlLeft
      [] scancode = 30 -> 65      \* 'A'
      [] scancode = 57 -> 32      \* ' '
      [] OTHER -> 0

\* scancode_to_ascii: -1 stands for None.
scancode_to_ascii(scancode) ==
    IF scancode >= PS2_SET1_LEN THEN -1
    ELSE LET key == PS2_SET1(scancode)
         IN  IF (32 <= key /\ key <= 126) \/ key \in { 8, 9, 10, 13 } THEN key ELSE -1

\* `ascii.is_ascii_graphic()`: '!' ..= '~'
is_ascii_graphic(c) == 33 <= c /\ c <= 126

\* Scancodes the keyboard's data port returns in the model: the 0xFA
\* acknowledge, a make code with a printable mapping (0x1E), one whose
\* mapping is not printable (0x1C), one beyond the table (0x59) and a break
\* code (0x9E).
Scancodes == { 250, 30, 28, 89, 158 }

\* Mutant of send_eoi: the end-of-interrupt is not sent.
send_eoi_omitted == <<>>

\* send_eoi: `mov al, 0x20 ; out 0x20, al`
send_eoi == <<"out 0x20, al">>

\* What keyboard_interrupt_handler prints for a scancode.
KeyboardOutput(scancode) ==
    IF scancode = 250
    THEN kprint("irq", "[INFO] INT 0x21: Keyboard interrupt, received 0xFA (possible ACK, not a keypress)\r\n")
    ELSE IF BitAnd(scancode, 128) = 0
    THEN LET converted == scancode_to_ascii(scancode)
         IN  IF converted # -1 /\ (is_ascii_graphic(converted) \/ converted = 32)
             THEN kprint("irq", "[INFO] INT 0x21: Keyboard interrupt, scancode | ASCII: char\r\n")
             ELSE kprint("irq", "[INFO] INT 0x21: Keyboard interrupt, scancode | ASCII: Unknown\r\n")
    ELSE <<>>

----------------------------------------------------------------------------
(* The kernel's state before its first instruction *)

NoExc == [vector |-> -1, raised |-> -1, pc |-> "none", stack |-> "none", stack_top |-> 0]

\* Vector offsets of the two interrupt controllers as the firmware left them
\* (the legacy mapping: master at 0x08, slave at 0x70).
FirmwarePic == [master |-> 8, slave |-> 112]

\* One `outb(port, value)`.
Outb(port, value) == [port |-> port, value |-> value]

\* ps2_init, lines 96-103: the initialization words sent to the two controllers.
PicRemapWrites ==
    << Outb(32, 17), Outb(160, 17),
       Outb(33, 32), Outb(161, 40),
       Outb(33, 4), Outb(161, 2),
       Outb(33, 1), Outb(161, 1) >>

\* The vector offset a controller ends up with: after an initialization
\* command (bit 4 set) on its command port, the first byte written to its
\* data port is the offset, of which the controller keeps the upper five bits.
PicOffset(writes, command_port, data_port, old) ==
    LET starts == { k \in 1..Len(writes) :
                      writes[k].port = command_port /\ BitAnd(writes[k].value, 16) # 0 }
    IN  IF starts = {} THEN old
        ELSE LET k == CHOOSE k \in starts : \A j \in starts : k <= j
                 after == { j \in (k + 1)..Len(writes) : writes[j].port = data_port }
             IN  IF after = {} THEN old
                 ELSE LET j == CHOOSE j \in after : \A i \in after : j <= i
                      IN  writes[j].value - (writes[j].value % 8)

\* Mutant of pic_remap: the controllers keep the firmware's offsets.
pic_remap_skipped(pic) == pic

\* The controllers after ps2_init's initialization words.
pic_remap(pic) ==
    [master |-> PicOffset(PicRemapWrites, 32, 33, pic.master),
     slave |-> PicOffset(PicRemapWrites, 160, 161, pic.slave)]

NoDev == [scancode |-> 0, htrace |-> <<>>, count |-> 0, line |-> 0, pic |-> FirmwarePic]

NoHeap == [base |-> 0, size |-> 0]

NoMem == <<>>

NoCall == [fn |-> "none", args |-> <<>>, ret |-> 0, n |-> 0]

\* Selectors into the firmware's descriptor table, which has more entries
\* than the kernel's five: code at index 7, data at index 6.
FirmwareSegments ==
    [cs |-> Selector(7, 0), ss |-> Selector(6, 0), ds |-> Selector(6, 0), es |-> Selector(6, 0)]

\* Nothing built, nothing written; the task register and the segment
\* registers hold what the firmware left.
KernelDataInit ==
    /\ GDT = EmptyGDT
    /\ TSS = EmptyTSS
    /\ IDT = EmptyIDT
    /\ tr = "firmware"
    /\ segment_registers = FirmwareSegments
    /\ heap = NoHeap
    /\ ktrace = <<>>
    /\ serial = <<>>
    /\ exc = NoExc
    /\ dev = NoDev
    /\ LOGGING_ENABLED = TRUE
    /\ mem = NoMem
    /\ call = NoCall

----------------------------------------------------------------------------
(* Initial state: main has run uefi init and is about to call boot_system *)

Init ==
    /\ disk \in Disks
    /\ build = "any"
    /\ bpc = "boot_system"
    /\ phIdx = 0
    /\ seg = NoSeg
    /\ log = <<>>
    /\ failure = "none"
    /\ entry_point = 0
    /\ kernel_entry = 0
    /\ framebuffer_info = 0
    /\ rdi = 0
    /\ callTarget = 0
    /\ kpc = "none"
    /\ interrupt_flag = TRUE
    /\ gdtLoaded = FALSE
    /\ idtLoaded = FALSE
    /\ heapInit = 0
    /\ irq = "none"
    /\ KernelDataInit
    /\ IST_STACKS = CHOOSE a \in IstStacksAddrs : \A b \in IstStacksAddrs : a <= b

\* unwrap / expect on an Err: the bootloader's panic handler never returns.
Panic(cause, events) ==
    /\ bpc' = "panicked"
    /\ failure' = cause
    /\ log' = log \o events \o <<Ev("panic", 0, 0, 0, 0, cause)>>

----------------------------------------------------------------------------
(* boot_system and load_kernel *)

\* boot_system line 61: call load_kernel.
BootSystemCallsLoadKernel ==
    /\ bpc = "boot_system"
    /\ bpc' = "read_file"
    /\ UNCHANGED <<disk, build, log, failure, loaderVars, framebuffer_info, rdi, callTarget, kernelVars>>

\* `read_file(file_path).unwrap()`
read_file ==
    /\ bpc = "read_file"
    /\ IF disk.present
       THEN /\ bpc' = "parse"
            /\ UNCHANGED <<log, failure>>
       ELSE Panic("read", <<>>)
    /\ UNCHANGED <<disk, build, loaderVars, framebuffer_info, rdi, callTarget, kernelVars>>

\* `ElfFile::new(&bytes).expect(...)`, then the first `elf.program_iter()` step.
ParseElf ==
    /\ bpc = "parse"
    /\ IF disk.elf
       THEN /\ bpc' = "program_iter"
            /\ phIdx' = 1
            /\ UNCHANGED <<log, failure>>
       ELSE /\ Panic("parse", <<>>)
            /\ UNCHANGED phIdx
    /\ UNCHANGED <<disk, build, seg, entry_point, kernel_entry, framebuffer_info, rdi, callTarget, kernelVars>>

InLoop == bpc = "program_iter" /\ phIdx <= Len(disk.ph)

\* A header that is not loadable: warn when it is Dynamic, then `continue`.
SkipProgramHeader ==
    /\ InLoop
    /\ LET ph == disk.ph[phIdx] IN
        /\ ~IsLoad(ph)
        /\ log' = IF IsDynamic(ph)
                  THEN Append(log, Ev("warn", phIdx, 0, 0, 0, "Skipping dynamic segment"))
                  ELSE log
    /\ phIdx' = phIdx + 1
    /\ UNCHANGED <<disk, build, seg, entry_point, kernel_entry, bootVars, kernelVars>>

\* `page_offset + mem_size` and the build it shows: an overflow panics when
\* overflow checks are compiled in (debug) and wraps when they are not (release).
TotalSizes(ph) ==
    LET po == page_offset(ph.virtual_addr) IN
    IF AddOverflows(po, ph.mem_size)
    THEN { [panics |-> TRUE, value |-> 0, build |-> "debug"] : b \in { build } \ { "release" } }
         \cup
         { [panics |-> FALSE, value |-> WrappingAdd(po, ph.mem_size), build |-> "release"] :
             b \in { build } \ { "debug" } }
    ELSE { [panics |-> FALSE, value |-> po + ph.mem_size, build |-> build] }

\* One iteration for a loadable header, to its end.
LoadSegment ==
    /\ InLoop
    /\ LET ph == disk.ph[phIdx] IN
        /\ IsLoad(ph)
        /\ \E t \in TotalSizes(ph) :
            /\ ~t.panics
            /\ ph.offset <= FileLen
            /\ build' = t.build
            /\ LET s == SegmentLocals(phIdx, ph, t.value)
                   w == SegmentWrites(phIdx, ph, s.aligned_virt_addr, s.page_offset)
               IN  /\ seg' = s
                   /\ log' = log \o <<AllocateEvent(s, TRUE)>> \o w
    /\ phIdx' = phIdx + 1
    /\ UNCHANGED <<disk, entry_point, kernel_entry, bootVars, kernelVars>>

\* The unsafe block wrote outside the pages it had allocated and the machine
\* faulted instead of carrying on.
LoadSegmentFaults ==
    /\ InLoop
    /\ LET ph == disk.ph[phIdx] IN
        /\ IsLoad(ph)
        /\ \E t \in TotalSizes(ph) :
            /\ ~t.panics
            /\ ph.offset <= FileLen
            /\ build' = t.build
            /\ LET s == SegmentLocals(phIdx, ph, t.value)
                   w == SegmentWrites(phIdx, ph, s.aligned_virt_addr, s.page_offset)
               IN  /\ ~WritesInAllocation(s, w)
                   /\ seg' = s
                   /\ log' = log \o <<AllocateEvent(s, TRUE)>> \o w
                             \o <<Ev("fault", phIdx, 0, 0, 0, "write outside allocation")>>
    /\ bpc' = "faulted"
    /\ failure' = "fault"
    /\ UNCHANGED <<disk, phIdx, entry_point, kernel_entry, framebuffer_info, rdi, callTarget, kernelVars>>

\* Debug build: `page_offset + mem_size` overflows and panics.
LoadSegmentAddPanics ==
    /\ InLoop
    /\ LET ph == disk.ph[phIdx] IN
        /\ IsLoad(ph)
        /\ \E t \in TotalSizes(ph) :
            /\ t.panics
            /\ build' = t.build
    /\ Panic("overflow", <<>>)
    /\ UNCHANGED <<disk, loaderVars, framebuffer_info, rdi, callTarget, kernelVars>>

\* Mutant of LoadSegmentAllocFails: the Err is dropped and the loop goes on.
LoadSegmentAllocErrIgnored ==
    /\ InLoop
    /\ LET ph == disk.ph[phIdx] IN
        /\ IsLoad(ph)
        /\ \E t \in TotalSizes(ph) :
            /\ ~t.panics
            /\ build' = t.build
            /\ LET s == SegmentLocals(phIdx, ph, t.value)
               IN  /\ seg' = s
                   /\ log' = Append(log, AllocateEvent(s, FALSE))
    /\ phIdx' = phIdx + 1
    /\ UNCHANGED <<disk, entry_point, kernel_entry, bootVars, kernelVars>>

\* `allocate_pages(...)` returns Err: `.expect("Failed to allocate pages")`.
LoadSegmentAllocFails ==
    /\ InLoop
    /\ LET ph == disk.ph[phIdx] IN
        /\ IsLoad(ph)
        /\ \E t \in TotalSizes(ph) :
            /\ ~t.panics
            /\ build' = t.build
            /\ LET s == SegmentLocals(phIdx, ph, t.value)
               IN  /\ seg' = s
                   /\ Panic("alloc", <<AllocateEvent(s, FALSE)>>)
    /\ UNCHANGED <<disk, phIdx, entry_point, kernel_entry, framebuffer_info, rdi, callTarget, kernelVars>>

\* `bytes[file_offset..]` with file_offset beyond the end of the file: the
\* slice index panics, after the pages were allocated.
LoadSegmentSlicePanics ==
    /\ InLoop
    /\ LET ph == disk.ph[phIdx] IN
        /\ IsLoad(ph)
        /\ \E t \in TotalSizes(ph) :
            /\ ~t.panics
            /\ ph.offset > FileLen
            /\ build' = t.build
            /\ LET s == SegmentLocals(phIdx, ph, t.value)
               IN  /\ seg' = s
                   /\ Panic("slice", <<AllocateEvent(s, TRUE)>>)
    /\ UNCHANGED <<disk, phIdx, entry_point, kernel_entry, framebuffer_info, rdi, callTarget, kernelVars>>

\* After the loop: read the entry point, make the pointer, return the pair.
LoadKernelReturns ==
    /\ bpc = "program_iter"
    /\ phIdx > Len(disk.ph)
    /\ entry_point' = EntryPointOf(disk)
    /\ kernel_entry' = Transmute(EntryPointOf(disk))
    /\ log' = Append(log, Ev("load_kernel_returns", 0, EntryPointOf(disk), 0, 0, ""))
    /\ bpc' = "initialize_framebuffer"
    /\ UNCHANGED <<disk, build, phIdx, seg, failure, framebuffer_info, rdi, callTarget, kernelVars>>

\* `initialize_framebuffer()`: the description, or a panic when the graphics
\* protocol cannot be opened.
initialize_framebuffer ==
    /\ bpc = "initialize_framebuffer"
    /\ \E ok \in BOOLEAN :
        IF ok
        THEN /\ framebuffer_info' = FramebufferInfoPtr
             /\ log' = Append(log, Ev("initialize_framebuffer", 0, FramebufferInfoPtr, 0, 0, ""))
             /\ bpc' = "asm_mov"
             /\ UNCHANGED failure
        ELSE /\ Panic("graphics", <<>>)
             /\ UNCHANGED framebuffer_info
    /\ UNCHANGED <<disk, build, loaderVars, rdi, callTarget, kernelVars>>

\* Registers the constraint `in(reg)` lets the compiler pick for an operand.
InRegs == { "rdi", "rax", "rcx" }

\* Mutant of AsmMovRdi: the transfer is made without acquiring the framebuffer.
AsmMovRdiSkipsFramebuffer ==
    /\ bpc = "initialize_framebuffer"
    /\ \E r0 \in InRegs : \E r1 \in InRegs \ { r0 } :
        /\ rdi' = framebuffer_info
        /\ callTarget' = IF r1 = "rdi" THEN framebuffer_info ELSE kernel_entry
    /\ log' = Append(log, Ev("mov_rdi", 0, framebuffer_info, 0, 0, ""))
    /\ bpc' = "asm_call"
    /\ UNCHANGED <<disk, build, loaderVars, failure, framebuffer_info, kernelVars>>

\* `mov rdi, {0}` with {0} = fb_ptr in register r0 and {1} = kernel_entry in r1.
AsmMovRdi ==
    /\ bpc = "asm_mov"
    /\ \E r0 \in InRegs : \E r1 \in InRegs \ { r0 } :
        /\ rdi' = framebuffer_info
        /\ callTarget' = IF r1 = "rdi" THEN framebuffer_info ELSE kernel_entry
    /\ log' = Append(log, Ev("mov_rdi", 0, framebuffer_info, 0, 0, ""))
    /\ bpc' = "asm_call"
    /\ UNCHANGED <<disk, build, loaderVars, failure, framebuffer_info, kernelVars>>

\* `call {1}`: control leaves the bootloader.
AsmCall ==
    /\ bpc = "asm_call"
    /\ bpc' = "transferred"
    /\ log' = Append(log, Ev("call", 0, callTarget, 0, 0, ""))
    /\ kpc' = IF callTarget # kernel_entry THEN "wild"
              ELSE IF disk.code = "returns" THEN "ret"
              ELSE "cli"
    /\ \E f \in BOOLEAN : interrupt_flag' = f
    /\ UNCHANGED <<disk, build, loaderVars, failure, framebuffer_info, rdi, callTarget,
                   gdtLoaded, idtLoaded, heapInit, irq, kernelData>>

\* The called code executes `ret` (an image whose entry returns, or whatever
\* bytes the call landed on).
EntryReturns ==
    /\ kpc \in { "ret", "wild" }
    /\ kpc' = "returned"
    /\ bpc' = "after_call"
    /\ UNCHANGED <<disk, build, log, loaderVars, failure, framebuffer_info, rdi, callTarget,
                   interrupt_flag, gdtLoaded, idtLoaded, heapInit, irq, kernelData>>

\* End of the asm block and of boot_system's body: return to the caller.
BootSystemReturns ==
    /\ bpc = "after_call"
    /\ bpc' = "main"
    /\ log' = Append(log, Ev("boot_system_returns", 0, 0, 0, 0, ""))
    /\ UNCHANGED <<disk, build, loaderVars, failure, framebuffer_info, rdi, callTarget, kernelVars>>

\* main line 28: `Status::SUCCESS`.
MainReturns ==
    /\ bpc = "main"
    /\ bpc' = "exited"
    /\ UNCHANGED <<disk, build, log, loaderVars, failure, framebuffer_info, rdi, callTarget, kernelVars>>

----------------------------------------------------------------------------
(* The kernel: naked_start and kernel_entry *)

\* Most device interrupts the controller raises in one run.
MaxDeviceInterrupts == 2

\* The main flow: it runs while no handler does.
KStep(from, to) ==
    /\ kpc = from
    /\ irq = "none"
    /\ exc.pc = "none"
    /\ kpc' = to

bootAll == <<disk, build, log, loaderVars, bootVars>>

fixedVars == <<bootAll, IST_STACKS, tr, libVars>>
gdtVars   == <<GDT, TSS, gdtLoaded, segment_registers>>
idtVars   == <<IDT, idtLoaded>>
heapVars  == <<heapInit, heap>>
irqVars   == <<irq, dev>>

\* naked_start: `cli`
NakedStartCli ==
    /\ KStep("cli", "lea_rsp")
    /\ interrupt_flag' = FALSE
    /\ UNCHANGED <<fixedVars, gdtVars, idtVars, heapVars, irqVars, ktrace, serial, exc>>

\* naked_start: `lea rsp, STACK_TOP`
NakedStartLeaRsp ==
    /\ KStep("lea_rsp", "call_kernel_entry")
    /\ UNCHANGED <<fixedVars, interrupt_flag, gdtVars, idtVars, heapVars, irqVars, ktrace, serial, exc>>

\* naked_start: `call kernel_entry`
NakedStartCall ==
    /\ KStep("call_kernel_entry",
             IF disk.code = "naked_start" THEN "init_allocator" ELSE "halt_cli")
    /\ UNCHANGED <<fixedVars, interrupt_flag, gdtVars, idtVars, heapVars, irqVars, ktrace, serial, exc>>

\* naked_start, label 2: `cli`
NakedStartHaltCli ==
    /\ KStep("halt_cli", "halt_hlt")
    /\ interrupt_flag' = FALSE
    /\ UNCHANGED <<fixedVars, gdtVars, idtVars, heapVars, irqVars, ktrace, serial, exc>>

\* naked_start, label 2: `hlt`, left only by an event that interrupts are
\* disabled cannot mask.
NakedStartHaltHlt ==
    /\ KStep("halt_hlt", "halt_jmp")
    /\ UNCHANGED <<fixedVars, interrupt_flag, gdtVars, idtVars, heapVars, irqVars, ktrace, serial, exc>>

\* Mutant of NakedStartHaltJmp: no jump back, naked_start returns to its caller.
NakedStartHaltReturns ==
    /\ kpc = "halt_jmp"
    /\ irq = "none"
    /\ kpc' = "returned"
    /\ bpc' = "after_call"
    /\ UNCHANGED <<disk, build, log, loaderVars, failure, framebuffer_info, rdi, callTarget,
                   interrupt_flag, gdtLoaded, idtLoaded, heapInit, irq, kernelData>>

\* naked_start: `jmp 2b`
NakedStartHaltJmp ==
    /\ KStep("halt_jmp", "halt_cli")
    /\ UNCHANGED <<fixedVars, interrupt_flag, gdtVars, idtVars, heapVars, irqVars, ktrace, serial, exc>>

\* Mutant of init_allocator: the arena is never handed to the allocator.
init_allocator_skipped ==
    /\ KStep("init_allocator", "init_gdt")
    /\ UNCHANGED <<fixedVars, interrupt_flag, gdtVars, idtVars, heapVars, irqVars, ktrace, serial, exc>>

\* kernel_entry: `init_allocator()`:
\* `ALLOCATOR.lock().init(heap_start as *mut u8, heap_size)`
init_allocator ==
    /\ KStep("init_allocator", "init_gdt")
    /\ heapInit' = heapInit + 1
    /\ heap' = [base |-> heap_start, size |-> heap_size]
    /\ ktrace' = Append(ktrace, "ALLOCATOR.init")
    /\ UNCHANGED <<fixedVars, interrupt_flag, gdtVars, idtVars, irqVars, serial, exc>>

\* What a call of init_gdt does to the tables and the CPU.
InitGdtEffect ==
    LET r == init_gdt_calls(GDT, TSS, IST_STACKS) IN
    /\ GDT' = r.GDT
    /\ TSS' = r.TSS
    /\ gdtLoaded' = TRUE
    /\ segment_registers' = set_segment_registers(segment_registers, r.GDT.selectors)
    /\ ktrace' = ktrace \o r.events

\* kernel_entry lines 176-179: two info lines, `polished_gdt::init_gdt()`, one info line.
init_gdt ==
    /\ KStep("init_gdt", "init_interrupts")
    /\ InitGdtEffect
    /\ serial' = serial \o info("main", "Hello from the kernel!")
                        \o info("main", "Initializing GDT...")
                        \o info("main", "GDT initialized")
    /\ UNCHANGED <<fixedVars, interrupt_flag, idtVars, heapVars, irqVars, exc>>

\* Mutant of init_interrupts: the table is built and never loaded.
init_interrupts_without_load ==
    /\ KStep("init_interrupts", "ps2_init")
    /\ IDT' = init_idt_calls(IDT).IDT
    /\ ktrace' = ktrace \o SelectSeq(init_idt_calls(IDT).events, LAMBDA e : e # "idt.load")
    /\ serial' = serial \o info("main", "Loading IDT...") \o info("main", "IDT loaded")
    /\ UNCHANGED <<fixedVars, interrupt_flag, gdtVars, idtLoaded, heapVars, irqVars, exc>>

\* What a call of init_idt does to the table and the CPU.
InitIdtEffect ==
    LET r == init_idt_calls(IDT) IN
    /\ IDT' = r.IDT
    /\ idtLoaded' = TRUE
    /\ ktrace' = ktrace \o r.events

\* kernel_entry: `init_interrupts()`: info, init_idt(), info.
init_interrupts ==
    /\ KStep("init_interrupts", "ps2_init")
    /\ InitIdtEffect
    /\ serial' = serial \o info("main", "Loading IDT...") \o info("main", "IDT loaded")
    /\ UNCHANGED <<fixedVars, interrupt_flag, gdtVars, heapVars, irqVars, exc>>

\* kernel_entry: `ps2_init()`: the opening line, the interrupt controllers
\* remapped, three `format!` strings on the heap, each logged, then the
\* closing line.
ps2_init ==
    /\ KStep("ps2_init", "log_framebuffer_info")
    /\ dev' = [dev EXCEPT !.pic = pic_remap(dev.pic)]
    /\ ktrace' = ktrace \o <<"PIC remap", "alloc", "alloc", "alloc">>
    /\ serial' = serial \o info("main", "Initializing PS/2 controller...")
                        \o info("main", "Keyboard RESET ACK: ")
                        \o info("main", "Keyboard BAT response / did not ACK: ")
                        \o info("main", "Keyboard scanning ACK: ")
                        \o info("main", "PS/2 controller initialized")
    /\ UNCHANGED <<fixedVars, interrupt_flag, gdtVars, idtVars, heapVars, irq, exc>>

\* Mutant of is_null: no pointer is taken to be null.
is_null_never(ptr) == FALSE

\* `fb_info_ptr.is_null()`
is_null(ptr) == ptr = 0

\* kernel_entry: `log_framebuffer_info(fb_info_ptr)`
log_framebuffer_info ==
    /\ KStep("log_framebuffer_info", "clear_framebuffer")
    /\ IF ~is_null(rdi)
       THEN /\ ktrace' = ktrace \o <<"read fb_info", "alloc">>
            /\ serial' = serial \o info("main", "FramebufferInfo: ")
       ELSE /\ ktrace' = ktrace
            /\ serial' = serial \o info("main", "FramebufferInfo pointer is null")
    /\ UNCHANGED <<fixedVars, interrupt_flag, gdtVars, idtVars, heapVars, irqVars, exc>>

\* kernel_entry: `clear_framebuffer(fb_info_ptr)`
\* The kernel's state keeps the lines it logs; the bytes it writes to the
\* framebuffer are followed in ClearFramebufferFill and ClearFramebufferDraw.
clear_framebuffer ==
    /\ KStep("clear_framebuffer", "interrupts_enable")
    /\ IF ~is_null(rdi)
       THEN /\ ktrace' = ktrace \o <<"read fb_info", "write framebuffer">>
            /\ serial' = serial \o info("main", "Framebuffer buffer filled with black")
       ELSE /\ ktrace' = ktrace
            /\ serial' = serial \o warn("main", "FramebufferInfo pointer is null, cannot fill buffer")
    /\ UNCHANGED <<fixedVars, interrupt_flag, gdtVars, idtVars, heapVars, irqVars, exc>>

\* kernel_entry: `x86_64::instructions::interrupts::enable()`
InterruptsEnable ==
    /\ KStep("interrupts_enable", "info_level")
    /\ interrupt_flag' = TRUE
    /\ ktrace' = Append(ktrace, "interrupts::enable")
    /\ UNCHANGED <<fixedVars, gdtVars, idtVars, heapVars, irqVars, serial, exc>>

\* The line kernel_entry logs at line 197, after interrupts were enabled.
MainLoopLine == info("main", "Kernel initialized successfully, entering main loop...")

\* info at line 197: `serial_write_str($level)`
InfoWritesLevel ==
    /\ KStep("info_level", "info_text")
    /\ serial' = Append(serial, MainLoopLine[1])
    /\ UNCHANGED <<fixedVars, interrupt_flag, gdtVars, idtVars, heapVars, irqVars, ktrace, exc>>

\* info at line 197: `write!(SerialLogger, "{}", text)`
InfoWritesText ==
    /\ KStep("info_text", "info_crlf")
    /\ serial' = Append(serial, MainLoopLine[2])
    /\ UNCHANGED <<fixedVars, interrupt_flag, gdtVars, idtVars, heapVars, irqVars, ktrace, exc>>

\* info at line 197: `serial_write_str("\r\n")`
InfoWritesCrlf ==
    /\ KStep("info_crlf", "sti")
    /\ serial' = Append(serial, MainLoopLine[3])
    /\ UNCHANGED <<fixedVars, interrupt_flag, gdtVars, idtVars, heapVars, irqVars, ktrace, exc>>

\* kernel_entry: `asm!("sti")`
Sti ==
    /\ KStep("sti", "hlt")
    /\ interrupt_flag' = TRUE
    /\ ktrace' = Append(ktrace, "sti")
    /\ UNCHANGED <<fixedVars, gdtVars, idtVars, heapVars, irqVars, serial, exc>>

\* kernel_entry: `loop { asm!("hlt") }`: the CPU stops until an interrupt.
Hlt ==
    /\ KStep("hlt", "halted")
    /\ UNCHANGED <<fixedVars, interrupt_flag, gdtVars, idtVars, heapVars, irqVars, ktrace, serial, exc>>

\* Positions at which kernel_entry's code is executing or halted.
KernelEntryPcs ==
    { "init_allocator", "init_gdt", "init_interrupts", "ps2_init", "log_framebuffer_info",
      "clear_framebuffer", "interrupts_enable", "info_level", "info_text", "info_crlf",
      "sti", "hlt", "halted" }

----------------------------------------------------------------------------
(* Device interrupts *)

\* The handler a vector's gate leads to, by the short name used for the
\* handler in progress.
RunningHandler(h) ==
    IF h = "timer_interrupt_handler" THEN "timer"
    ELSE IF h = "keyboard_interrupt_handler" THEN "keyboard"
    ELSE h

\* The master interrupt controller raises line 0 (timer) or line 1
\* (keyboard) and hands the CPU its vector offset plus the line; the CPU
\* takes it when interrupts are enabled, through the gate of that vector, an
\* interrupt gate, which clears the flag; a halted CPU resumes after the
\* `hlt`.  The scancode is what the keyboard's data port will return.
DeviceInterrupt ==
    /\ kpc \in KernelEntryPcs
    /\ irq = "none"
    /\ exc.pc = "none"
    /\ interrupt_flag
    /\ dev.count < MaxDeviceInterrupts
    /\ \E line \in { 0, 1 } :
        LET h == RunningHandler(IDT.entries[dev.pic.master + line].handler) IN
        /\ irq' = h
        /\ \E sc \in (IF line = 1 THEN Scancodes ELSE { 0 }) :
            dev' = [dev EXCEPT !.scancode = sc, !.htrace = <<h>>, !.count = @ + 1,
                               !.line = line]
    /\ interrupt_flag' = FALSE
    /\ kpc' = IF kpc = "halted" THEN "hlt" ELSE kpc
    /\ UNCHANGED <<fixedVars, gdtVars, idtVars, heapVars, ktrace, serial, exc>>

\* timer_interrupt_handler: send_eoi, then iretq restores the interrupted flags.
timer_interrupt_handler ==
    /\ irq = "timer"
    /\ exc.pc = "none"
    /\ dev' = [dev EXCEPT !.htrace = @ \o send_eoi \o <<"iretq">>]
    /\ irq' = "none"
    /\ interrupt_flag' = TRUE
    /\ UNCHANGED <<fixedVars, kpc, gdtVars, idtVars, heapVars, ktrace, serial, exc>>

\* keyboard_interrupt_handler: read the data port, print by the kind of
\* scancode, send_eoi, then iretq.
keyboard_interrupt_handler ==
    /\ irq = "keyboard"
    /\ exc.pc = "none"
    /\ dev' = [dev EXCEPT !.htrace = @ \o <<"in al, 0x60">>
                                       \o (IF KeyboardOutput(dev.scancode) # <<>>
                                           THEN <<"kprint">> ELSE <<>>)
                                       \o send_eoi \o <<"iretq">>]
    /\ serial' = serial \o KeyboardOutput(dev.scancode)
    /\ irq' = "none"
    /\ interrupt_flag' = TRUE
    /\ UNCHANGED <<fixedVars, kpc, gdtVars, idtVars, heapVars, ktrace, exc>>

----------------------------------------------------------------------------
(* CPU exceptions *)

\* The vector the CPU ends up delivering when vector v is raised: a gate that
\* is not present raises segment-not-present (vector 11) instead.
DeliveredVector(idt, v) == IF idt.entries[v].present THEN v ELSE 11

\* The stack the CPU switches to for a gate: none for IST bits 0, otherwise
\* the slot of the task-state segment the task register points at.  The
\* task register holds what the firmware left unless a selector was loaded.
GateStack(gate, task_register, tss) ==
    IF gate.ist = 0 THEN [kind |-> "current", top |-> 0]
    ELSE IF task_register = "tss_segment"
         THEN [kind |-> "ist", top |-> tss.interrupt_stack_table[gate.ist - 1]]
         ELSE [kind |-> "undefined", top |-> 0]

\* The CPU raises exception vector v (a fault of the running code, an NMI, a
\* machine check) once the kernel's vector table is loaded.  With a stack
\* taken from a task-state segment the kernel never set up, the handler may
\* run on whatever that memory holds or the machine may fault again and reset.
RaiseException ==
    /\ kpc \in KernelEntryPcs
    /\ idtLoaded
    /\ exc.pc = "none"
    /\ \E v \in ExceptionVectors :
        LET d == DeliveredVector(IDT, v)
            s == GateStack(IDT.entries[d], tr, TSS)
        IN  \E outcome \in (IF s.kind = "undefined" THEN { "handler", "triple_fault" }
                            ELSE { "handler" }) :
                exc' = [vector |-> d, raised |-> v, pc |-> outcome,
                        stack |-> s.kind, stack_top |-> s.top]
    /\ interrupt_flag' = FALSE
    /\ UNCHANGED <<fixedVars, kpc, gdtVars, idtVars, heapVars, irqVars, ktrace, serial>>

\* The body of the handler: its kprint! lines, and for the handlers that
\* panic the panic handler's report (two `to_string` on the heap).
ExceptionHandlerRuns ==
    /\ exc.pc = "handler"
    /\ LET h == IDT.entries[exc.vector].handler IN
        /\ \E profile \in (IF build = "any" THEN { "debug", "release" } ELSE { build }) :
              serial' = serial \o HandlerOutput(h, profile)
        /\ ktrace' = ktrace \o (IF h \in PanickingHandlers THEN <<"alloc", "alloc">> ELSE <<>>)
    /\ exc' = [exc EXCEPT !.pc = "cli"]
    /\ UNCHANGED <<fixedVars, kpc, interrupt_flag, gdtVars, idtVars, heapVars, irqVars>>

\* `loop { asm!("cli; hlt") }` of a handler or of the panic handler: `cli`
ExceptionCli ==
    /\ exc.pc = "cli"
    /\ exc' = [exc EXCEPT !.pc = "hlt"]
    /\ interrupt_flag' = FALSE
    /\ UNCHANGED <<fixedVars, kpc, gdtVars, idtVars, heapVars, irqVars, ktrace, serial>>

\* Mutant of ExceptionHlt: the handler returns to the interrupted code.
ExceptionHltReturns ==
    /\ exc.pc = "hlt"
    /\ exc' = NoExc
    /\ UNCHANGED <<fixedVars, kpc, interrupt_flag, gdtVars, idtVars, heapVars, irqVars, ktrace, serial>>

\* `loop { asm!("cli; hlt") }`: `hlt`, left only by an event that disabled
\* interrupts cannot mask, and then the loop goes round.
ExceptionHlt ==
    /\ exc.pc = "hlt"
    /\ exc' = [exc EXCEPT !.pc = "cli"]
    /\ UNCHANGED <<fixedVars, kpc, interrupt_flag, gdtVars, idtVars, heapVars, irqVars, ktrace, serial>>

----------------------------------------------------------------------------
(* The initializers called by any caller, any number of times *)

\* Most calls of the initializers in one run of InitSpec.
MaxCalls == 6

CallMarkers == { "get_tss", "init_gdt", "init_idt" }

\* Calls made so far; get_tss called from init_gdt's closure counts as one.
CallCount == Len(SelectSeq(ktrace, LAMBDA e : e \in CallMarkers))

CanCall == kpc = "library" /\ CallCount < MaxCalls

\* A caller calls get_tss().
CallGetTss ==
    /\ CanCall
    /\ TSS' = get_tss(TSS, IST_STACKS).TSS
    /\ ktrace' = ktrace \o get_tss(TSS, IST_STACKS).events
    /\ UNCHANGED <<fixedVars, kpc, interrupt_flag, GDT, gdtLoaded, segment_registers,
                   idtVars, heapVars, irqVars, serial, exc>>

\* A caller calls init_gdt().
CallInitGdt ==
    /\ CanCall
    /\ InitGdtEffect
    /\ UNCHANGED <<fixedVars, kpc, interrupt_flag, idtVars, heapVars, irqVars, serial, exc>>

\* A caller calls init_idt().
CallInitIdt ==
    /\ CanCall
    /\ InitIdtEffect
    /\ UNCHANGED <<fixedVars, kpc, interrupt_flag, gdtVars, heapVars, irqVars, serial, exc>>

----------------------------------------------------------------------------

Next ==
    \/ BootSystemCallsLoadKernel
    \/ read_file
    \/ ParseElf
    \/ SkipProgramHeader
    \/ LoadSegment
    \/ LoadSegmentFaults
    \/ LoadSegmentAddPanics
    \/ LoadSegmentAllocFails
    \/ LoadSegmentSlicePanics
    \/ LoadKernelReturns
    \/ initialize_framebuffer
    \/ AsmMovRdi
    \/ AsmCall
    \/ EntryReturns
    \/ BootSystemReturns
    \/ MainReturns
    \/ NakedStartCli
    \/ NakedStartLeaRsp
    \/ NakedStartCall
    \/ NakedStartHaltCli
    \/ NakedStartHaltHlt
    \/ NakedStartHaltJmp
    \/ init_allocator
    \/ init_gdt
    \/ init_interrupts
    \/ ps2_init
    \/ log_framebuffer_info
    \/ clear_framebuffer
    \/ InterruptsEnable
    \/ InfoWritesLevel
    \/ InfoWritesText
    \/ InfoWritesCrlf
    \/ Sti
    \/ Hlt

Spec == Init /\ [][Next]_vars

\* The kernel from its entry point: the state the bootloader's call leaves,
\* for an image of this repository's kernel.
KernelInit ==
    /\ disk \in { d \in ElfImages : d.ph = <<>> /\ d.code # "returns" /\ d.entry = 2101248 }
    /\ build = "any"
    /\ bpc = "transferred"
    /\ phIdx = 1
    /\ seg = NoSeg
    /\ failure = "none"
    /\ entry_point = EntryPointOf(disk)
    /\ kernel_entry = Transmute(EntryPointOf(disk))
    /\ framebuffer_info = FramebufferInfoPtr
    /\ rdi = FramebufferInfoPtr
    /\ callTarget = kernel_entry
    /\ log = <<Ev("load_kernel_returns", 0, EntryPointOf(disk), 0, 0, ""),
               Ev("initialize_framebuffer", 0, FramebufferInfoPtr, 0, 0, ""),
               Ev("mov_rdi", 0, FramebufferInfoPtr, 0, 0, ""),
               Ev("call", 0, EntryPointOf(disk), 0, 0, "")>>
    /\ kpc = "cli"
    /\ interrupt_flag \in BOOLEAN
    /\ gdtLoaded = FALSE
    /\ idtLoaded = FALSE
    /\ heapInit = 0
    /\ irq = "none"
    /\ KernelDataInit
    /\ IST_STACKS = CHOOSE a \in IstStacksAddrs : \A b \in IstStacksAddrs : a <= b

KernelNext ==
    \/ NakedStartCli
    \/ NakedStartLeaRsp
    \/ NakedStartCall
    \/ NakedStartHaltCli
    \/ NakedStartHaltHlt
    \/ NakedStartHaltJmp
    \/ init_allocator
    \/ init_gdt
    \/ init_interrupts
    \/ ps2_init
    \/ log_framebuffer_info
    \/ clear_framebuffer
    \/ InterruptsEnable
    \/ InfoWritesLevel
    \/ InfoWritesText
    \/ InfoWritesCrlf
    \/ Sti
    \/ Hlt
    \/ DeviceInterrupt
    \/ timer_interrupt_handler
    \/ keyboard_interrupt_handler
    \/ RaiseException
    \/ ExceptionHandlerRuns
    \/ ExceptionCli
    \/ ExceptionHlt

KernelSpec == KernelInit /\ [][KernelNext]_vars

\* kernel_entry entered with the pointer boot_system passes or with a null
\* pointer, which its contract allows.
EntryInit ==
    /\ disk \in { d \in ElfImages : d.ph = <<>> /\ d.code # "returns" /\ d.entry = 2101248 }
    /\ build = "any"
    /\ bpc = "transferred"
    /\ phIdx = 1
    /\ seg = NoSeg
    /\ failure = "none"
    /\ entry_point = EntryPointOf(disk)
    /\ kernel_entry = Transmute(EntryPointOf(disk))
    /\ framebuffer_info = FramebufferInfoPtr
    /\ rdi \in { 0, FramebufferInfoPtr }
    /\ callTarget = kernel_entry
    /\ log = <<Ev("mov_rdi", 0, rdi, 0, 0, ""), Ev("call", 0, EntryPointOf(disk), 0, 0, "")>>
    /\ kpc = "cli"
    /\ interrupt_flag \in BOOLEAN
    /\ gdtLoaded = FALSE
    /\ idtLoaded = FALSE
    /\ heapInit = 0
    /\ irq = "none"
    /\ KernelDataInit
    /\ IST_STACKS = CHOOSE a \in IstStacksAddrs : \A b \in IstStacksAddrs : a <= b

\* The kernel and its devices in a run in which no CPU exception is raised.
MainFlowNext ==
    \/ NakedStartCli
    \/ NakedStartLeaRsp
    \/ NakedStartCall
    \/ NakedStartHaltCli
    \/ NakedStartHaltHlt
    \/ NakedStartHaltJmp
    \/ init_allocator
    \/ init_gdt
    \/ init_interrupts
    \/ ps2_init
    \/ log_framebuffer_info
    \/ clear_framebuffer
    \/ InterruptsEnable
    \/ InfoWritesLevel
    \/ InfoWritesText
    \/ InfoWritesCrlf
    \/ Sti
    \/ Hlt
    \/ DeviceInterrupt
    \/ timer_interrupt_handler
    \/ keyboard_interrupt_handler

MainFlowSpec == KernelInit /\ [][MainFlowNext]_vars

\* The same run from either pointer; the processor keeps executing and the
\* devices raise at most MaxDeviceInterrupts interrupts.
EntrySpec == EntryInit /\ [][MainFlowNext]_vars /\ WF_vars(MainFlowNext)

\* The initializers as a library: nothing has been built, a caller calls
\* them in any order.
LibraryInit ==
    /\ disk \in { d \in ElfImages : d.ph = <<>> /\ d.code = "naked_start" }
    /\ build = "any"
    /\ bpc = "transferred"
    /\ phIdx = 1
    /\ seg = NoSeg
    /\ failure = "none"
    /\ entry_point = EntryPointOf(disk)
    /\ kernel_entry = Transmute(EntryPointOf(disk))
    /\ framebuffer_info = FramebufferInfoPtr
    /\ rdi = FramebufferInfoPtr
    /\ callTarget = kernel_entry
    /\ log = <<>>
    /\ kpc = "library"
    /\ interrupt_flag = FALSE
    /\ gdtLoaded = FALSE
    /\ idtLoaded = FALSE
    /\ heapInit = 0
    /\ irq = "none"
    /\ KernelDataInit
    /\ IST_STACKS \in IstStacksAddrs

LibraryNext ==
    \/ CallGetTss
    \/ CallInitGdt
    \/ CallInitIdt

InitSpec == LibraryInit /\ [][LibraryNext]_vars

----------------------------------------------------------------------------
(* Library routines called directly *)

\* A caller of a library routine: the kernel image is in place, nothing of
\* the kernel has run, nothing has been written.
LibraryIdle ==
    /\ disk = CHOOSE d \in ElfImages : d.ph = <<>> /\ d.code = "naked_start" /\ d.entry = 2101248
    /\ build = "any"
    /\ bpc = "transferred"
    /\ phIdx = 1
    /\ seg = NoSeg
    /\ failure = "none"
    /\ entry_point = EntryPointOf(disk)
    /\ kernel_entry = Transmute(EntryPointOf(disk))
    /\ framebuffer_info = FramebufferInfoPtr
    /\ rdi = FramebufferInfoPtr
    /\ callTarget = kernel_entry
    /\ log = <<>>
    /\ kpc = "library"
    /\ interrupt_flag = FALSE
    /\ gdtLoaded = FALSE
    /\ idtLoaded = FALSE
    /\ heapInit = 0
    /\ irq = "none"
    /\ GDT = EmptyGDT
    /\ TSS = EmptyTSS
    /\ IDT = EmptyIDT
    /\ tr = "firmware"
    /\ segment_registers = FirmwareSegments
    /\ heap = NoHeap
    /\ ktrace = <<>>
    /\ serial = <<>>
    /\ exc = NoExc
    /\ dev = NoDev
    /\ IST_STACKS = CHOOSE a \in IstStacksAddrs : \A b \in IstStacksAddrs : a <= b

\* What the caller leaves alone: everything but the library's own state.
idleVars == <<bootAll, kernelVarsButLib>>

\* The record of a finished call.
Called(fn, args, ret) == [fn |-> fn, args |-> args, ret |-> ret, n |-> call.n + 1]

----------------------------------------------------------------------------
(* The serial_logging crate *)

\* Calls of the serial_logging crate in one run.
MaxSerialCalls == 3

\* Values given to serial_write_hex and info_hex.
HexValues == { 0, 10, 48879 }

CanCallSerial == kpc = "library" /\ call.n < MaxSerialCalls

\* `enable_serial_logging()`
enable_serial_logging ==
    /\ CanCallSerial
    /\ LOGGING_ENABLED' = TRUE
    /\ call' = Called("enable_serial_logging", <<>>, 0)
    /\ UNCHANGED <<idleVars, serial, mem>>

\* `disable_serial_logging()`
disable_serial_logging ==
    /\ CanCallSerial
    /\ LOGGING_ENABLED' = FALSE
    /\ call' = Called("disable_serial_logging", <<>>, 0)
    /\ UNCHANGED <<idleVars, serial, mem>>

\* `serial_write_byte(b'A')`
CallSerialWriteByte ==
    /\ CanCallSerial
    /\ serial' = serial \o serial_write_byte("lib", 65)
    /\ call' = Called("serial_write_byte", <<65>>, 0)
    /\ UNCHANGED <<idleVars, LOGGING_ENABLED, mem>>

\* `serial_write_str("boot")`
CallSerialWriteStr ==
    /\ CanCallSerial
    /\ serial' = serial \o serial_write_str("lib", "boot")
    /\ call' = Called("serial_write_str", <<"boot">>, 0)
    /\ UNCHANGED <<idleVars, LOGGING_ENABLED, mem>>

\* `serial_write_hex(value)`
CallSerialWriteHex ==
    \E value \in HexValues :
        /\ CanCallSerial
        /\ serial' = serial \o serial_write_hex("lib", value)
        /\ call' = Called("serial_write_hex", <<value>>, 0)
        /\ UNCHANGED <<idleVars, LOGGING_ENABLED, mem>>

\* `info("msg")`
CallInfo ==
    /\ CanCallSerial
    /\ serial' = serial \o info("lib", "msg")
    /\ call' = Called("info", <<"msg">>, 0)
    /\ UNCHANGED <<idleVars, LOGGING_ENABLED, mem>>

\* `warn("msg")`
CallWarn ==
    /\ CanCallSerial
    /\ serial' = serial \o warn("lib", "msg")
    /\ call' = Called("warn", <<"msg">>, 0)
    /\ UNCHANGED <<idleVars, LOGGING_ENABLED, mem>>

\* `error("msg")`
CallError ==
    /\ CanCallSerial
    /\ serial' = serial \o error("lib", "msg")
    /\ call' = Called("error", <<"msg">>, 0)
    /\ UNCHANGED <<idleVars, LOGGING_ENABLED, mem>>

\* `info_hex(value)`
CallInfoHex ==
    \E value \in HexValues :
        /\ CanCallSerial
        /\ serial' = serial \o info_hex("lib", value)
        /\ call' = Called("info_hex", <<value>>, 0)
        /\ UNCHANGED <<idleVars, LOGGING_ENABLED, mem>>

\* `_print(format_args!("msg"))`
CallPrint ==
    /\ CanCallSerial
    /\ serial' = serial \o _print("lib", "msg")
    /\ call' = Called("_print", <<"msg">>, 0)
    /\ UNCHANGED <<idleVars, LOGGING_ENABLED, mem>>

\* `kprint!("msg")`
CallKprint ==
    /\ CanCallSerial
    /\ serial' = serial \o kprint("lib", "msg")
    /\ call' = Called("kprint", <<"msg">>, 0)
    /\ UNCHANGED <<idleVars, LOGGING_ENABLED, mem>>

SerialInit ==
    /\ LibraryIdle
    /\ LOGGING_ENABLED = TRUE
    /\ mem = NoMem
    /\ call = NoCall

SerialNext ==
    \/ enable_serial_logging
    \/ disable_serial_logging
    \/ CallSerialWriteByte
    \/ CallSerialWriteStr
    \/ CallSerialWriteHex
    \/ CallInfo
    \/ CallWarn
    \/ CallError
    \/ CallInfoHex
    \/ CallPrint
    \/ CallKprint

SerialSpec == SerialInit /\ [][SerialNext]_vars

----------------------------------------------------------------------------
(* Helpers of the properties *)

LogOps(ops) == SelectSeq(log, LAMBDA e : e.op \in ops)

HasEvent(op) == \E k \in 1..Len(log) : log[k].op = op

\* Number of program headers load_kernel's loop has finished with.
Processed ==
    IF bpc \in { "boot_system", "read_file", "parse" } THEN 0
    ELSE IF bpc \in { "program_iter", "panicked", "faulted" } /\ ~HasEvent("load_kernel_returns")
         THEN (IF phIdx = 0 THEN 0 ELSE phIdx - 1)
    ELSE Len(disk.ph)

\* load_kernel has returned to boot_system.
LoadKernelReturned == HasEvent("load_kernel_returns")

\* A loadable header of a well-formed image: the file part is inside the file
\* and not larger than the memory part, and the segment ends inside the
\* address space.
WellFormedHeader(ph) ==
    ph.type = "Load" =>
        /\ ph.file_size <= ph.mem_size
        /\ ph.offset + ph.file_size <= FileLen
        /\ ph.virtual_addr + ph.mem_size < UsizeModulus

WellFormedImage == \A i \in 1..Len(disk.ph) : WellFormedHeader(disk.ph[i])

\* The address the firmware returned for header i's allocation.
AllocationOf(i) ==
    LET k == CHOOSE k \in 1..Len(log) : log[k].op = "allocate_pages" /\ log[k].ph = i
    IN  log[k].addr

\* What one allocate-then-copy cycle for header i must look like: the
\* allocation, file_size bytes from the header's file offset to
\* allocation + page_offset, then mem_size - file_size zero bytes if any.
CycleOf(i) ==
    LET ph == disk.ph[i]
        to == AllocationOf(i) + (ph.virtual_addr % PageSize)
    IN  <<[op |-> "allocate_pages", ph |-> i, addr |-> AllocationOf(i), len |-> 0, src |-> 0],
          [op |-> "copy", ph |-> i, addr |-> to, len |-> ph.file_size, src |-> ph.offset]>>
        \o (IF ph.mem_size - ph.file_size > 0
            THEN <<[op |-> "zero", ph |-> i, addr |-> to + ph.file_size,
                    len |-> ph.mem_size - ph.file_size, src |-> 0]>>
            ELSE <<>>)

RECURSIVE CyclesUpTo(_)
CyclesUpTo(n) ==
    IF n = 0 THEN <<>>
    ELSE CyclesUpTo(n - 1) \o (IF disk.ph[n].type = "Load" THEN CycleOf(n) ELSE <<>>)

\* An event of the log as CycleOf describes it (the page count left out).
CycleShape(e) ==
    [op |-> e.op, ph |-> e.ph, addr |-> e.addr,
     len |-> IF e.op = "allocate_pages" THEN 0 ELSE e.len, src |-> e.src]

CycleLog ==
    LET c == LogOps({ "allocate_pages", "copy", "zero" })
    IN  [k \in 1..Len(c) |-> CycleShape(c[k])]

----------------------------------------------------------------------------
(* C1 .. C10 *)

\* C1: for a well-formed image, as long as nothing has failed, the loader has
\* performed exactly one allocate-then-copy cycle per loadable header it has
\* finished with, in program-header order: the allocation, then file_size
\* bytes copied from the header's file offset to allocation + page_offset,
\* then exactly mem_size - file_size zero bytes, the zero-fill being present
\* only when mem_size > file_size.  When load_kernel returns that is N cycles
\* for N loadable headers.
C1_OneCyclePerLoadableHeader ==
    (failure = "none" /\ disk.elf /\ WellFormedImage) => CycleLog = CyclesUpTo(Processed)

C1_Witness ==
    /\ LoadKernelReturned
    /\ WellFormedImage
    /\ Len(LogOps({ "allocate_pages" })) = 2
    /\ Len(LogOps({ "zero" })) = 1

\* C2: the call instruction is executed only after, in this order, load_kernel
\* has returned, initialize_framebuffer has returned the description, and the
\* description's address has been moved into rdi; nothing of the loader runs
\* after load_kernel has returned, and the image's code runs only after the call.
C2_BootSystemOrder ==
    /\ \A k \in 1..Len(log) :
        /\ log[k].op = "call" =>
             /\ k >= 4
             /\ log[k - 1].op = "mov_rdi"
             /\ log[k - 1].addr = log[k - 2].addr
        /\ log[k].op = "mov_rdi" => k >= 3 /\ log[k - 1].op = "initialize_framebuffer"
        /\ log[k].op = "initialize_framebuffer" => k >= 2 /\ log[k - 1].op = "load_kernel_returns"
        /\ log[k].op = "load_kernel_returns" =>
             \A j \in 1..Len(log) :
                log[j].op \in { "allocate_pages", "copy", "zero", "warn" } => j < k
    /\ kpc # "none" => HasEvent("call")
    /\ HasEvent("call") => rdi = framebuffer_info /\ framebuffer_info = FramebufferInfoPtr

C2_Witness == kpc = "lea_rsp" /\ HasEvent("copy")

\* C3: once naked_start's first instruction has executed, interrupts stay
\* disabled until kernel_entry enables them, and whenever they are enabled (or
\* an interrupt handler is running) the descriptor table and the vector table
\* have been loaded.
C3_InterruptsOnlyAfterTables ==
    /\ kpc \in { "lea_rsp", "call_kernel_entry", "init_allocator", "init_gdt",
                 "init_interrupts", "ps2_init", "log_framebuffer_info",
                 "clear_framebuffer", "interrupts_enable" }
         => ~interrupt_flag /\ irq = "none"
    /\ (kpc \in KernelEntryPcs \cup { "lea_rsp", "call_kernel_entry", "halt_cli", "halt_hlt", "halt_jmp" }
        /\ (interrupt_flag \/ irq # "none"))
         => gdtLoaded /\ idtLoaded

C3_Witness == kpc = "halted" /\ interrupt_flag /\ idtLoaded /\ gdtLoaded

\* C4: a failed file read, a failed parse and a failed page allocation each
\* end the boot in the panic handler at that point: nothing is logged after
\* the panic, load_kernel has not returned, the failing header's successors
\* have not been touched and no image code has been called.
C4_LoadFailureIsFatal ==
    /\ (~disk.present /\ bpc \notin { "boot_system", "read_file" }) => failure = "read"
    /\ (disk.present /\ ~disk.elf /\ bpc \notin { "boot_system", "read_file", "parse" })
         => failure = "parse"
    /\ (\E k \in 1..Len(log) : log[k].op = "allocate_pages" /\ log[k].kind = "Err")
         => failure = "alloc"
    /\ failure \in { "read", "parse", "alloc" } =>
         /\ bpc = "panicked"
         /\ kpc = "none"
         /\ log[Len(log)].op = "panic"
         /\ ~LoadKernelReturned
         /\ ~HasEvent("call")
         /\ \A k \in 1..Len(log) : log[k].ph <= phIdx
         /\ \A k \in 1..Len(log) : log[k].op \in { "copy", "zero" } => log[k].ph < phIdx

C4_Witness ==
    /\ failure = "alloc"
    /\ phIdx = 1
    /\ Len(disk.ph) = 2
    /\ disk.ph[2].type = "Load"

\* C5 (as claimed): for every loadable segment the aligned address is the
\* virtual address with its low 12 bits cleared, lies at most one page below
\* it, page_offset is their difference and the page count requested is
\* ceil((page_offset + mem_size) / 4096).
C5_PageArithmetic ==
    seg.ph # 0 =>
        LET ph == disk.ph[seg.ph]
            total == seg.page_offset + ph.mem_size
        IN  /\ seg.aligned_virt_addr <= ph.virtual_addr
            /\ ph.virtual_addr < seg.aligned_virt_addr + PageSize
            /\ seg.aligned_virt_addr % PageSize = 0
            /\ seg.page_offset = ph.virtual_addr - seg.aligned_virt_addr
            /\ seg.num_pages * PageSize >= total
            /\ seg.num_pages * PageSize < total + PageSize
            /\ \A k \in 1..Len(log) :
                 (log[k].op = "allocate_pages" /\ log[k].ph = seg.ph) => log[k].len = seg.num_pages

\* C6: every allocation is requested at exactly the segment's page-aligned
\* virtual address and the bytes go to the virtual address itself (no load
\* bias); the memory type is LOADER_CODE exactly when the header's execute
\* flag is set and LOADER_DATA otherwise.
C6_FixedAddressAndMemoryType ==
    /\ \A k \in 1..Len(log) :
        /\ log[k].op = "allocate_pages" =>
             LET ph == disk.ph[log[k].ph] IN
             /\ log[k].addr = ph.virtual_addr - (ph.virtual_addr % PageSize)
             /\ log[k].kind # "Err" =>
                  /\ log[k].kind = "LOADER_CODE" <=> ph.execute
                  /\ log[k].kind = "LOADER_DATA" <=> ~ph.execute
        /\ log[k].op = "copy" => log[k].addr = disk.ph[log[k].ph].virtual_addr
    /\ seg.ph # 0 => (seg.mem_type = "LOADER_CODE" <=> disk.ph[seg.ph].execute)
    /\ seg.ph # 0 => (seg.mem_type = "LOADER_DATA" <=> ~disk.ph[seg.ph].execute)

C6_Witness ==
    /\ \E k \in 1..Len(log) : log[k].op = "allocate_pages" /\ log[k].kind = "LOADER_CODE"
    /\ \E k \in 1..Len(log) : log[k].op = "allocate_pages" /\ log[k].kind = "LOADER_DATA"

C8_EntryVerbatim ==
    LoadKernelReturned =>
        /\ entry_point = disk.entry
        /\ kernel_entry = disk.entry
        /\ \A k \in 1..Len(log) : log[k].op = "load_kernel_returns" => log[k].addr = disk.entry

C8_Witness ==
    /\ LoadKernelReturned
    /\ Len(LogOps({ "allocate_pages" })) = 2
    /\ \A i \in 1..Len(disk.ph) : disk.ph[i].virtual_addr # entry_point

\* C9 (as claimed): boot_system never returns to its caller: when the call
\* has reached the image's entry point, no bootloader code after the call
\* runs on, and boot_system does not return, whatever the called code does.
C9_BootSystemNeverReturns ==
    (HasEvent("call") /\ callTarget = kernel_entry) =>
        /\ ~HasEvent("boot_system_returns")
        /\ bpc \notin { "main", "exited" }

\* C10: once naked_start has been entered, control stays inside naked_start
\* and kernel_entry and the bootloader never runs again; kernel_entry's final
\* loop is never left, and if kernel_entry returns naked_start stays in its
\* cli / hlt / jmp loop with interrupts disabled.
C10_KernelNeverReturns ==
    [][ /\ kpc \in KernelEntryPcs \cup { "cli", "lea_rsp", "call_kernel_entry",
                                        "halt_cli", "halt_hlt", "halt_jmp" }
          => /\ kpc' \in KernelEntryPcs \cup { "lea_rsp", "call_kernel_entry",
                                              "halt_cli", "halt_hlt", "halt_jmp" }
             /\ bpc' = "transferred"
             /\ bpc = "transferred"
        /\ kpc \in { "hlt", "halted" } => kpc' \in { "hlt", "halted" }
        /\ kpc \in { "halt_cli", "halt_hlt", "halt_jmp" }
          => /\ kpc' \in { "halt_cli", "halt_hlt", "halt_jmp" }
             /\ ~interrupt_flag'
             /\ irq' = "none"
      ]_vars

C10_Witness == kpc = "halt_jmp" /\ bpc = "transferred" /\ ~interrupt_flag

----------------------------------------------------------------------------
(* C11 .. C20 *)

\* Event e has happened.
Occurs(e) == \E k \in 1..Len(ktrace) : ktrace[k] = e

\* Event b has not happened unless event a happened before it.
Before(a, b) ==
    \A k \in 1..Len(ktrace) :
        ktrace[k] = b => \E j \in 1..(k - 1) : ktrace[j] = a

\* Number of occurrences of event e in ktrace.
Count(e) == Len(SelectSeq(ktrace, LAMBDA x : x = e))

\* C11 (as claimed): bring-up is strictly staged: the descriptor table is
\* built, loaded and the segment registers are reprogrammed; only then are
\* the two fault stacks recorded in slots 1 and 2 of the task-state segment;
\* then the vector table is built; then it is loaded.
C11_StagesAsClaimed ==
    /\ Before("GlobalDescriptorTable::new", "gdt.load")
    /\ Before("gdt.load", "ES::set_reg")
    /\ Before("ES::set_reg", "interrupt_stack_table[1]")
    /\ Before("interrupt_stack_table[1]", "interrupt_stack_table[2]")
    /\ Before("interrupt_stack_table[2]", "InterruptDescriptorTable::new")
    /\ Before("InterruptDescriptorTable::new", "setup_hardware_interrupts")
    /\ Before("setup_hardware_interrupts", "idt.load")

\* C11 (amended): the two fault stacks are recorded in slots 1 and 2 of the
\* task-state segment while the descriptor table is being built, before the
\* table is loaded; then the table is loaded and the four segment registers
\* are reprogrammed; then the vector table is built (CPU exceptions, then
\* device interrupts); then it is loaded; and all of it before interrupts
\* are enabled.
C11_StagesInOrder ==
    /\ Before("GlobalDescriptorTable::new", "interrupt_stack_table[1]")
    /\ Before("interrupt_stack_table[1]", "interrupt_stack_table[2]")
    /\ Before("interrupt_stack_table[2]", "gdt.append tss_segment")
    /\ Before("gdt.append tss_segment", "gdt.load")
    /\ Before("gdt.load", "CS::set_reg")
    /\ Before("CS::set_reg", "SS::set_reg")
    /\ Before("SS::set_reg", "DS::set_reg")
    /\ Before("DS::set_reg", "ES::set_reg")
    /\ Before("ES::set_reg", "InterruptDescriptorTable::new")
    /\ Before("InterruptDescriptorTable::new", "setup_cpu_exceptions")
    /\ Before("setup_cpu_exceptions", "setup_hardware_interrupts")
    /\ Before("setup_hardware_interrupts", "idt.load")
    /\ Before("idt.load", "interrupts::enable")
    /\ gdtLoaded <=> Occurs("gdt.load")
    /\ idtLoaded <=> Occurs("idt.load")
    /\ TSS.set <=> Occurs("interrupt_stack_table[2]")

C11_Witness == kpc = "halted" /\ Occurs("idt.load") /\ Occurs("interrupt_stack_table[2]")

\* C12: once a table has been built, no call of init_gdt, get_tss or
\* init_idt, in any order, changes it: each builder has run at most once,
\* the cell holds the same table with the same stack tops, and the stacks
\* are recorded once.
C12_InitializersIdempotent ==
    [][ /\ TSS.set => TSS' = TSS
        /\ GDT.set => GDT' = GDT
        /\ IDT.set => IDT' = IDT
        /\ TSS'.gen <= 1 /\ GDT'.gen <= 1 /\ IDT'.gen <= 1
        /\ Len(SelectSeq(ktrace', LAMBDA x : x = "TaskStateSegment::new")) <= 1
        /\ Len(SelectSeq(ktrace', LAMBDA x : x = "interrupt_stack_table[1]")) <= 1
        /\ Len(SelectSeq(ktrace', LAMBDA x : x = "interrupt_stack_table[2]")) <= 1
        /\ Len(SelectSeq(ktrace', LAMBDA x : x = "GlobalDescriptorTable::new")) <= 1
        /\ Len(SelectSeq(ktrace', LAMBDA x : x = "InterruptDescriptorTable::new")) <= 1
        /\ Len(SelectSeq(ktrace', LAMBDA x : x = "setup_cpu_exceptions")) <= 1
      ]_vars

C12_Witness ==
    /\ GDT.set /\ TSS.set /\ IDT.set
    /\ Count("init_gdt") >= 2
    /\ Count("get_tss") >= 2
    /\ Count("init_idt") >= 2

\* C13 (as claimed): once the vector table is built, every CPU-exception
\* vector 0..31 has an installed handler.
C13_AllExceptionVectorsHandled ==
    IDT.set =>
        \A v \in ExceptionVectors :
            IDT.entries[v].present /\ IDT.entries[v].handler # "missing"

\* C14: once the vector table is built, the double-fault and the NMI vector
\* are the only ones with a stack index; the slot of the task-state segment
\* the double-fault gate selects holds the top of stack region 1 and the slot
\* the NMI gate selects holds the top of stack region 2, each top being the
\* region's start plus its size; the two regions lie inside IST_STACKS and do
\* not overlap.
C14_DedicatedStacks ==
    IDT.set =>
        LET df == IDT.entries[8]
            nmi == IDT.entries[2]
            start1 == IST_STACKS + 1 * IST_STACK_SIZE
            start2 == IST_STACKS + 2 * IST_STACK_SIZE
        IN  /\ { v \in Vectors : IDT.entries[v].ist # 0 } = { 2, 8 }
            /\ df.handler = "double_fault_handler"
            /\ nmi.handler = "non_maskable_interrupt_handler"
            /\ TSS.set
            /\ TSS.interrupt_stack_table[df.ist - 1] = start1 + IST_STACK_SIZE
            /\ TSS.interrupt_stack_table[nmi.ist - 1] = start2 + IST_STACK_SIZE
            /\ df.ist # nmi.ist
            /\ start1 + IST_STACK_SIZE <= start2 \/ start2 + IST_STACK_SIZE <= start1
            /\ IST_STACKS <= start1 /\ start1 + IST_STACK_SIZE <= IST_STACKS + IST_ENTRIES * IST_STACK_SIZE
            /\ IST_STACKS <= start2 /\ start2 + IST_STACK_SIZE <= IST_STACKS + IST_ENTRIES * IST_STACK_SIZE

C14_Witness == IDT.set /\ TSS.set /\ idtLoaded /\ kpc = "ps2_init"

\* C15 (as claimed): whenever the kernel runs with interrupts enabled the
\* task register holds the selector of the kernel's task-state segment, and a
\* double fault or NMI that is delivered runs its handler on the stack top
\* recorded for it.
C15_FaultsOnDedicatedStack ==
    /\ (kpc \in KernelEntryPcs /\ interrupt_flag) => tr = "tss_segment"
    /\ (exc.pc # "none" /\ exc.vector \in { 2, 8 }) =>
          /\ exc.stack = "ist"
          /\ exc.stack_top = TSS.interrupt_stack_table[IDT.entries[exc.vector].ist - 1]

\* C16: a CPU-exception handler other than the debug and the breakpoint
\* handler, once entered, writes diagnostic text and then stays in its
\* cli / hlt loop for ever: interrupts stay disabled, the interrupted code
\* (main flow or device handler) never moves again, nothing more is written;
\* the handlers that panic also leave the panic handler's report.
C16_HandlersAreTerminal ==
    [][ (/\ exc.pc \in { "handler", "cli", "hlt" }
         /\ IDT.entries[exc.vector].handler \notin { "debug_handler", "breakpoint_handler" })
        => /\ exc'.vector = exc.vector
           /\ exc'.raised = exc.raised
           /\ exc'.pc \in { "cli", "hlt" }
           /\ ~interrupt_flag'
           /\ kpc' = kpc
           /\ irq' = irq
           /\ dev' = dev
           /\ exc.pc = "handler" =>
                /\ Len(serial') > Len(serial)
                /\ \A k \in (Len(serial) + 1)..Len(serial') : serial'[k].by = "exc"
                /\ IDT.entries[exc.vector].handler \in PanickingHandlers =>
                     \E k \in (Len(serial) + 1)..Len(serial') :
                        serial'[k].s = "Kernel panic occurred!"
           /\ exc.pc # "handler" => serial' = serial
      ]_vars

C16_Witness ==
    /\ exc.pc = "hlt"
    /\ exc.vector = 13
    /\ \E k \in 1..Len(serial) : serial[k].s = "Kernel panic occurred!"

\* C17: a divide error raised once the vector table is loaded is delivered
\* to divide_by_zero_handler itself (no other vector takes its place), the
\* serial port then receives the line with "DIVIDE BY ZERO", and from there
\* the handler stays in its cli / hlt loop with interrupts disabled while the
\* interrupted code never moves again.
C17_DivideByZeroHalts ==
    [][ /\ exc'.raised = 0 =>
             /\ exc'.vector = 0
             /\ exc'.pc \in { "handler", "cli", "hlt" }
             /\ IDT.entries[0].handler = "divide_by_zero_handler"
             /\ idtLoaded
             /\ ~interrupt_flag'
             /\ exc'.pc # "handler" =>
                  \E k \in 1..Len(serial') :
                     serial'[k] = Out("exc", "[ERROR] EXCEPTION: DIVIDE BY ZERO\r\n")
        /\ exc.raised = 0 =>
             /\ exc'.raised = 0
             /\ kpc' = kpc
             /\ irq' = irq
      ]_vars

C17_Witness ==
    /\ exc.raised = 0
    /\ exc.pc = "hlt"
    /\ kpc = "info_text"
    /\ ~interrupt_flag

\* C18: a finished run of the timer handler or of the keyboard handler has
\* sent exactly one end-of-interrupt, as its last step before returning; the
\* keyboard handler has read the data port exactly once, before it, whatever
\* the scancode; and after the handler has returned the kernel is where it
\* was, in its main flow with interrupts enabled, with no handler halted.
C18_DeviceHandlersAcknowledgeAndReturn ==
    (irq = "none" /\ dev.count > 0 /\ exc.pc = "none") =>
        LET h == dev.htrace
            n == Len(h)
        IN  /\ n >= 3
            /\ h[1] \in { "timer", "keyboard" }
            /\ h[n] = "iretq"
            /\ h[n - 1] = "out 0x20, al"
            /\ Cardinality({ k \in 1..n : h[k] = "out 0x20, al" }) = 1
            /\ h[1] = "timer" => n = 3
            /\ h[1] = "keyboard" =>
                 /\ h[2] = "in al, 0x60"
                 /\ Cardinality({ k \in 1..n : h[k] = "in al, 0x60" }) = 1
            /\ kpc \in { "info_level", "info_text", "info_crlf", "sti", "hlt", "halted" }
            /\ interrupt_flag

C18_Witness ==
    /\ irq = "none"
    /\ exc.pc = "none"
    /\ dev.count = 2
    /\ dev.scancode = 158
    /\ kpc = "halted"
    /\ \E k \in 1..Len(serial) : serial[k].by = "irq"

\* C19 (as claimed): no interrupt handler's output lies inside a line of the
\* main flow: what follows the level or the text of a main-flow line on the
\* serial port is never written by an interrupt handler.
C19_NoInterleavedOutput ==
    \A k \in 1..(Len(serial) - 1) :
        (serial[k].by = "main" /\ serial[k].s # "\r\n") => serial[k + 1].by # "irq"

\* C20: the allocator is initialized at most once, with base 0x1000_0000 and
\* size 0x0100_0000; once init_allocator has returned it has been initialized
\* exactly once, and no heap allocation and no enabling of interrupts
\* happens before it.
C20_HeapInitializedOnceFirst ==
    /\ heapInit <= 1
    /\ Count("ALLOCATOR.init") = heapInit
    /\ kpc \in (KernelEntryPcs \ { "init_allocator" }) =>
         /\ heapInit = 1
         /\ heap = [base |-> 268435456, size |-> 16777216]
    /\ Before("ALLOCATOR.init", "alloc")
    /\ Before("ALLOCATOR.init", "interrupts::enable")
    /\ Before("ALLOCATOR.init", "sti")
    /\ (kpc \in KernelEntryPcs /\ (interrupt_flag \/ irq # "none")) => heapInit = 1

C20_Witness ==
    /\ kpc = "halted"
    /\ heapInit = 1
    /\ Count("alloc") >= 4
    /\ interrupt_flag

----------------------------------------------------------------------------
(* clear_framebuffer and the drawing it ends with *)

\* Largest width and height, in pixels, of a framebuffer description.
MaxFbWidth == 3
MaxFbHeight == 3

\* Addresses a framebuffer starts at.
FbAddresses == { 0, 8 }

\* Bytes of the memory the framebuffer lies in: room for the highest address
\* and the longest padded rows.
FbMemLen == 8 + (MaxFbWidth + 1) * MaxFbHeight * 4 + 4

\* What every byte holds before the call.
StaleByte == 170

\* FramebufferInfo as the boot loader may hand it over: rows padded or not,
\* `size` covering the padded rows, only the visible pixels, or one row.
FramebufferInfos ==
    { [address |-> a, size |-> sz, width |-> w, height |-> h, stride |-> st] :
        a \in FbAddresses, w \in 1..MaxFbWidth, h \in 1..MaxFbHeight,
        st \in 1..(MaxFbWidth + 1), sz \in 0..((MaxFbWidth + 1) * MaxFbHeight * 4) }

WellFormedFramebufferInfos ==
    { fb \in FramebufferInfos :
        /\ fb.stride \in { fb.width, fb.width + 1 }
        /\ fb.size \in { fb.stride * fb.height * 4, fb.width * fb.height * 4, fb.stride * 4 } }

\* Mutant of ClearLen: only the visible pixels are cleared.
ClearLenVisible(fb) == fb.width * fb.height * 4

\* `core::slice::from_raw_parts_mut(fb.address as *mut u8, fb.size)`: the
\* length of the slice the loop walks.
ClearLen(fb) == fb.size

\* `for byte in buffer.iter_mut() { *byte = 0 }`: the writes, in order.
ClearWrites(fb) == [k \in 1..ClearLen(fb) |-> [addr |-> fb.address + (k - 1), value |-> 0]]

\* Memory after a sequence of byte writes.
RECURSIVE ApplyWrites(_, _)
ApplyWrites(m, writes) ==
    IF writes = <<>> THEN m
    ELSE ApplyWrites([m EXCEPT ![Head(writes).addr] = Head(writes).value], Tail(writes))

Abs(i) == IF i < 0 THEN -i ELSE i

\* draw_wu_line: the blend_pixel calls in program order, each with its pixel
\* and its brightness as a fraction num / den.  Both endpoints are whole
\* numbers, so each end has gap 1/2 and no fractional part; in the loop
\* `intery` is y0 + gradient * (x - x0), exact for the sizes of the model.
WuPlots(ax0, ay0, ax1, ay1) ==
    LET steep == Abs(ay1 - ay0) > Abs(ax1 - ax0)
        sx0 == IF steep THEN ay0 ELSE ax0
        sy0 == IF steep THEN ax0 ELSE ay0
        sx1 == IF steep THEN ay1 ELSE ax1
        sy1 == IF steep THEN ax1 ELSE ay1
        x0 == IF sx0 > sx1 THEN sx1 ELSE sx0
        y0 == IF sx0 > sx1 THEN sy1 ELSE sy0
        x1 == IF sx0 > sx1 THEN sx0 ELSE sx1
        y1 == IF sx0 > sx1 THEN sy0 ELSE sy1
        dx == x1 - x0
        dy == y1 - y0
        Plot(x, y, num, den) ==
            IF steep THEN [x |-> y, y |-> x, num |-> num, den |-> den]
            ELSE [x |-> x, y |-> y, num |-> num, den |-> den]
        cnt == IF dx >= 2 THEN dx - 1 ELSE 0
        Inter(i) ==
            LET x == x0 + 1 + ((i - 1) \div 2)
                n == y0 * dx + dy * (x - x0)
                y == n \div dx
                f == n % dx
            IN  IF i % 2 = 1 THEN Plot(x, y, dx - f, dx) ELSE Plot(x, y + 1, f, dx)
    IN  << Plot(x0, y0, 1, 2), Plot(x0, y0 + 1, 0, 2),
           Plot(x1, y1, 1, 2), Plot(x1, y1 + 1, 0, 2) >>
        \o [i \in 1..(2 * cnt) |-> Inter(i)]

\* blend_pixel: nothing outside width x height; otherwise the pixel at
\* (y * stride + x) * 4 is read, white is blended in, and the four bytes are
\* written back with the top byte 0xFF.
blend_pixel(m, fb, plot) ==
    IF plot.x >= 0 /\ plot.x < fb.width /\ plot.y >= 0 /\ plot.y < fb.height
    THEN LET offset == fb.address + (plot.y * fb.stride + plot.x) * 4
             alpha == (plot.num * 255) \div plot.den
             Blend(bg) == (bg * (255 - alpha)) \div 255 + (255 * alpha) \div 255
         IN  [m EXCEPT ![offset] = Blend(m[offset]),
                       ![offset + 1] = Blend(m[offset + 1]),
                       ![offset + 2] = Blend(m[offset + 2]),
                       ![offset + 3] = 255]
    ELSE m

RECURSIVE draw_plots(_, _, _)
draw_plots(m, fb, plots) ==
    IF plots = <<>> THEN m
    ELSE draw_plots(blend_pixel(m, fb, Head(plots)), fb, Tail(plots))

\* `x.saturating_sub(1)`
SaturatingSub1(x) == IF x = 0 THEN 0 ELSE x - 1

\* framebuffer_x_demo: the two diagonals.
framebuffer_x_demo(m, fb) ==
    LET right == SaturatingSub1(fb.width)
        bottom == SaturatingSub1(fb.height)
    IN  draw_plots(m, fb, WuPlots(0, 0, right, bottom) \o WuPlots(right, 0, 0, bottom))

\* A caller is about to call clear_framebuffer with a null pointer or with a
\* pointer to a description; the memory holds stale bytes.
FramebufferInit ==
    /\ LibraryIdle
    /\ LOGGING_ENABLED = TRUE
    /\ mem = [a \in 0..(FbMemLen - 1) |-> StaleByte]
    /\ \E ptr \in { 0, FramebufferInfoPtr } :
        \E fb \in WellFormedFramebufferInfos :
            call = [fn |-> "clear_framebuffer", args |-> <<ptr>>, ret |-> 0, n |-> 0,
                    fb |-> fb, pc |-> "is_null", cleared |-> <<>>]

InClearFramebuffer(pc) == call.fn = "clear_framebuffer" /\ call.pc = pc

\* clear_framebuffer, null pointer: the warning.
ClearFramebufferNull ==
    /\ InClearFramebuffer("is_null")
    /\ call.args[1] = 0
    /\ serial' = serial \o warn("main", "FramebufferInfo pointer is null, cannot fill buffer")
    /\ call' = [call EXCEPT !.pc = "returned", !.n = @ + 1]
    /\ UNCHANGED <<idleVars, LOGGING_ENABLED, mem>>

\* clear_framebuffer, lines 61-65: the slice and the loop that zeroes it.
ClearFramebufferFill ==
    /\ InClearFramebuffer("is_null")
    /\ call.args[1] # 0
    /\ mem' = ApplyWrites(mem, ClearWrites(call.fb))
    /\ call' = [call EXCEPT !.pc = "filled", !.cleared = ClearWrites(call.fb)]
    /\ UNCHANGED <<idleVars, LOGGING_ENABLED, serial>>

\* clear_framebuffer, lines 66-67: the info line and framebuffer_x_demo.
ClearFramebufferDraw ==
    /\ InClearFramebuffer("filled")
    /\ serial' = serial \o info("main", "Framebuffer buffer filled with black")
    /\ mem' = framebuffer_x_demo(mem, call.fb)
    /\ call' = [call EXCEPT !.pc = "returned", !.n = @ + 1]
    /\ UNCHANGED <<idleVars, LOGGING_ENABLED>>

FramebufferNext ==
    \/ ClearFramebufferNull
    \/ ClearFramebufferFill
    \/ ClearFramebufferDraw

FramebufferSpec == FramebufferInit /\ [][FramebufferNext]_vars

----------------------------------------------------------------------------
(* polished_memory: memmove and memcmp *)

\* Bytes of the memory the two functions are called on.
MemLen == 4

\* Values a byte of that memory may hold.
ByteValues == { 0, 1, 255 }

\* A pointer and a length that stay inside the memory ("valid for reads and
\* writes of `count` bytes").
ValidRange(ptr, count) == ptr \in 0..MemLen /\ count \in 0..MemLen /\ ptr + count <= MemLen

\* `for i in 0..count { write(dest.add(i), read(src.add(i))) }`, from step i.
RECURSIVE CopyForward(_, _, _, _, _)
CopyForward(m, dest, src, i, count) ==
    IF i >= count THEN m
    ELSE CopyForward([m EXCEPT ![dest + i] = m[src + i]], dest, src, i + 1, count)

\* `for i in (0..count).rev() { write(dest.add(i), read(src.add(i))) }`, with
\* i steps left.
RECURSIVE CopyBackward(_, _, _, _)
CopyBackward(m, dest, src, i) ==
    IF i = 0 THEN m
    ELSE CopyBackward([m EXCEPT ![dest + (i - 1)] = m[src + (i - 1)]], dest, src, i - 1)

\* Mutant of memmove: the copy always runs forward.
memmove_forward(m, dest, src, count) == CopyForward(m, dest, src, 0, count)

\* memmove: forward when dest <= src or dest >= src + count, else backward.
memmove(m, dest, src, count) ==
    IF dest <= src \/ dest >= WrappingAdd(src, count)
    THEN CopyForward(m, dest, src, 0, count)
    ELSE CopyBackward(m, dest, src, count)

\* `x as i8 as i32`
AsI8(x) == IF x >= 128 THEN x - 256 ELSE x

\* Mutant of ByteDifference: the bytes are read as signed.
ByteDifferenceSigned(a, b) == AsI8(a) - AsI8(b)

\* `a as i32 - b as i32`, a and b of type u8.
ByteDifference(a, b) == a - b

\* memcmp from index i: the first unequal pair decides, 0 when there is none.
RECURSIVE memcmp(_, _, _, _, _)
memcmp(m, s1, s2, i, n) ==
    IF i >= n THEN 0
    ELSE IF m[s1 + i] # m[s2 + i] THEN ByteDifference(m[s1 + i], m[s2 + i])
    ELSE memcmp(m, s1, s2, i + 1, n)

\* No call made yet; the memory holds any bytes.
MemoryInit ==
    /\ LibraryIdle
    /\ LOGGING_ENABLED = TRUE
    /\ mem \in [0..(MemLen - 1) -> ByteValues]
    /\ call = NoCall

CanCallMemory == kpc = "library" /\ call.fn = "none"

CallMemmove ==
    /\ CanCallMemory
    /\ \E dest, src \in 0..MemLen, count \in 0..MemLen :
        /\ ValidRange(dest, count)
        /\ ValidRange(src, count)
        /\ mem' = memmove(mem, dest, src, count)
        /\ call' = Called("memmove", <<dest, src, count>>, 0)
    /\ UNCHANGED <<idleVars, LOGGING_ENABLED, serial>>

CallMemcmp ==
    /\ CanCallMemory
    /\ \E s1, s2 \in 0..MemLen, n \in 0..MemLen :
        /\ ValidRange(s1, n)
        /\ ValidRange(s2, n)
        /\ call' = Called("memcmp", <<s1, s2, n>>, memcmp(mem, s1, s2, 0, n))
    /\ UNCHANGED <<idleVars, LOGGING_ENABLED, serial, mem>>

MemoryNext ==
    \/ CallMemmove
    \/ CallMemcmp

MemorySpec == MemoryInit /\ [][MemoryNext]_vars

----------------------------------------------------------------------------
(* polished_syscalls *)

\* `u64::MAX`; u64 has the width of usize on the target and in the model.
U64_MAX == UsizeModulus - 1

\* `Syscall::Test as u64`
Syscall_Test == 0

\* syscall_test()
syscall_test == 42

\* Syscall numbers and argument values a caller passes.
SyscallNumbers == { Syscall_Test, 1, 999, U64_MAX }
SyscallArgs == { 0, U64_MAX }

\* Mutant of syscall_handler: an unknown number yields the first argument.
syscall_handler_echo(num, arg1, arg2, arg3, arg4, arg5, arg6) ==
    IF num = Syscall_Test THEN syscall_test ELSE arg1

\* `match num { x if x == Syscall::Test as u64 => syscall_test(), _ => u64::MAX }`
syscall_handler(num, arg1, arg2, arg3, arg4, arg5, arg6) ==
    IF num = Syscall_Test THEN syscall_test ELSE U64_MAX

SyscallInit ==
    /\ LibraryIdle
    /\ LOGGING_ENABLED = TRUE
    /\ mem = NoMem
    /\ call = NoCall

CallSyscallHandler ==
    /\ kpc = "library"
    /\ call.fn = "none"
    /\ \E num \in SyscallNumbers :
        \E a1, a2, a3, a4, a5, a6 \in SyscallArgs :
            call' = Called("syscall_handler", <<num, a1, a2, a3, a4, a5, a6>>,
                           syscall_handler(num, a1, a2, a3, a4, a5, a6))
    /\ UNCHANGED <<idleVars, LOGGING_ENABLED, serial, mem>>

SyscallNext == CallSyscallHandler

SyscallSpec == SyscallInit /\ [][SyscallNext]_vars

----------------------------------------------------------------------------
(* polished_ps2: ps2_init step by step *)

\* `for _ in 0..10000` in wait_input_clear and wait_output_set.
PollLimit == 10000

\* Position, among the reads of the status port in one wait, of the first
\* read that shows the awaited bit; PollLimit + 1 stands for every status
\* sequence that does not show it within PollLimit reads.
FirstReady == { 1, 2, PollLimit, PollLimit + 1 }

\* Mutant of WaitPolls: the loop has no upper limit.
WaitPollsUnbounded(first) == first

\* Reads of the status port one wait makes: up to the first read that shows
\* the bit (`break`), PollLimit when the range runs out.
WaitPolls(first) == IF first <= PollLimit THEN first ELSE PollLimit

\* The wait ended because the range ran out.
WaitTimedOut(first) == first > PollLimit

\* Bytes the devices may answer with.
MaskBytes == { 255, 184 }
ConfigBytes == { 0, 3, 69, 255 }
AckBytes == { 250, 254 }
BatBytes == { 170, 252 }

BitOr(a, b) == a + b - BitAnd(a, b)

\* `(_config | 0x01 | 0x40) & !0x02` on u8
NewConfig(config) == BitAnd(BitOr(BitOr(config, 1), 64), 255 - 2)

\* `master_mask & !((1 << 1) | (1 << 2))` on u8
UnmaskKeyboardAndCascade(master_mask) == BitAnd(master_mask, 255 - 6)

\* `master_mask & !(1 << 1)` on u8
UnmaskKeyboard(master_mask) == BitAnd(master_mask, 255 - 2)

LowerHexDigit(d) == SubSeq("0123456789abcdef", d + 1, d + 1)

\* `format!("{:#x}", v)`
RECURSIVE LowerHexDigits(_)
LowerHexDigits(v) ==
    IF v < 16 THEN LowerHexDigit(v) ELSE LowerHexDigits(v \div 16) \o LowerHexDigit(v % 16)

AltHex(v) == "0x" \o LowerHexDigits(v)

\* One access to an I/O port other than a status poll.
Io(op, port, value) == [op |-> op, port |-> port, value |-> value]

\* The call record after waits whose awaited bit first shows at `firsts`.
RECURSIVE AfterWaits(_, _)
AfterWaits(c, firsts) ==
    IF firsts = <<>> THEN c
    ELSE AfterWaits([c EXCEPT !.waits = @ + 1,
                              !.max_polls = IF WaitPolls(Head(firsts)) > @
                                            THEN WaitPolls(Head(firsts)) ELSE @,
                              !.timed_out = @ \/ WaitTimedOut(Head(firsts))],
                    Tail(firsts))

\* Mutant of AfterResetAck: the self-test response is read whatever the answer.
AfterResetAckAlways(ack) == "read_bat"

\* `if ack == 0xFA { ... } else { ... }`
AfterResetAck(ack) == IF ack = 250 THEN "read_bat" ELSE "no_ack"

\* A caller is about to call ps2_init.
Ps2Init ==
    /\ LibraryIdle
    /\ LOGGING_ENABLED = TRUE
    /\ mem = NoMem
    /\ call = [fn |-> "ps2_init", args |-> <<>>, ret |-> 0, n |-> 0, pc |-> "pic",
               io |-> <<>>, waits |-> 0, max_polls |-> 0, timed_out |-> FALSE]

AtPs2(pc) == kpc = "library" /\ call.fn = "ps2_init" /\ call.pc = pc

ps2Unchanged == <<bootAll, kpc, interrupt_flag, gdtLoaded, idtLoaded, heapInit, irq, GDT, TSS, IDT,
                  IST_STACKS, tr, segment_registers, heap, ktrace, exc, LOGGING_ENABLED, mem>>

\* Lines 91-110: the opening line, the controllers remapped, IRQ1 and IRQ2
\* unmasked, the slave masked, one read of the data port.
Ps2RemapAndMask ==
    /\ AtPs2("pic")
    /\ \E master_mask \in MaskBytes, stale \in { 0 } :
        call' = [call EXCEPT !.pc = "flush",
                   !.io = @ \o [k \in 1..Len(PicRemapWrites) |->
                                   Io("out", PicRemapWrites[k].port, PicRemapWrites[k].value)]
                            \o << Io("in", 33, master_mask),
                                  Io("out", 33, UnmaskKeyboardAndCascade(master_mask)),
                                  Io("out", 161, 255),
                                  Io("in", 96, stale) >>]
    /\ dev' = [dev EXCEPT !.pic = pic_remap(dev.pic)]
    /\ serial' = serial \o info("main", "Initializing PS/2 controller...")
    /\ UNCHANGED ps2Unchanged

\* Lines 145-152: wait_output_set, then the data port is read and dropped.
Ps2Flush ==
    /\ AtPs2("flush")
    /\ \E f1 \in FirstReady, dummy \in { 0 } :
        call' = [AfterWaits(call, <<f1>>) EXCEPT !.pc = "disable_keyboard",
                   !.io = @ \o << Io("in", 96, dummy) >>]
    /\ UNCHANGED <<ps2Unchanged, dev, serial>>

\* Lines 156-161: wait_input_clear, command 0xAD.
Ps2DisableKeyboard ==
    /\ AtPs2("disable_keyboard")
    /\ \E f1 \in FirstReady :
        call' = [AfterWaits(call, <<f1>>) EXCEPT !.pc = "disable_mouse",
                   !.io = @ \o << Io("out", 100, 173) >>]
    /\ UNCHANGED <<ps2Unchanged, dev, serial>>

\* Lines 163-168: wait_input_clear, command 0xA7.
Ps2DisableMouse ==
    /\ AtPs2("disable_mouse")
    /\ \E f1 \in FirstReady :
        call' = [AfterWaits(call, <<f1>>) EXCEPT !.pc = "read_config",
                   !.io = @ \o << Io("out", 100, 167) >>]
    /\ UNCHANGED <<ps2Unchanged, dev, serial>>

\* Lines 172-185: wait_input_clear, command 0x20, wait_output_set, the
\* configuration byte read from the data port.
Ps2ReadConfig ==
    /\ AtPs2("read_config")
    /\ \E f1, f2 \in FirstReady, config \in ConfigBytes :
        call' = [AfterWaits(call, <<f1, f2>>) EXCEPT !.pc = "write_config",
                   !.io = @ \o << Io("out", 100, 32), Io("in", 96, config) >>]
    /\ UNCHANGED <<ps2Unchanged, dev, serial>>

\* The byte the last read of the data port returned.
LastRead(io) ==
    LET R == { k \in 1..Len(io) : io[k].op = "in" /\ io[k].port = 96 }
    IN  io[CHOOSE k \in R : \A j \in R : j <= k].value

\* Lines 186-199: the new configuration byte, wait_input_clear, command
\* 0x60, wait_input_clear, the byte written to the data port.
Ps2WriteConfig ==
    /\ AtPs2("write_config")
    /\ \E f1, f2 \in FirstReady :
        call' = [AfterWaits(call, <<f1, f2>>) EXCEPT !.pc = "enable_keyboard",
                   !.io = @ \o << Io("out", 100, 96),
                                  Io("out", 96, NewConfig(LastRead(call.io))) >>]
    /\ UNCHANGED <<ps2Unchanged, dev, serial>>

\* Lines 202-207: wait_input_clear, command 0xAE.
Ps2EnableKeyboard ==
    /\ AtPs2("enable_keyboard")
    /\ \E f1 \in FirstReady :
        call' = [AfterWaits(call, <<f1>>) EXCEPT !.pc = "reset",
                   !.io = @ \o << Io("out", 100, 174) >>]
    /\ UNCHANGED <<ps2Unchanged, dev, serial>>

\* Lines 211-216: wait_input_clear, 0xFF to the keyboard, wait_output_set,
\* the answer read and logged.
Ps2ResetKeyboard ==
    /\ AtPs2("reset")
    /\ \E f1, f2 \in FirstReady, ack \in AckBytes :
        /\ call' = [AfterWaits(call, <<f1, f2>>) EXCEPT !.pc = AfterResetAck(ack),
                      !.io = @ \o << Io("out", 96, 255), Io("in", 96, ack) >>]
        /\ serial' = serial \o info("main", "Keyboard RESET ACK: " \o AltHex(ack))
    /\ UNCHANGED <<ps2Unchanged, dev>>

\* Lines 217-222: wait_output_set, the self-test response read and logged.
Ps2ReadBat ==
    /\ AtPs2("read_bat")
    /\ \E f1 \in FirstReady, bat \in BatBytes :
        /\ call' = [AfterWaits(call, <<f1>>) EXCEPT !.pc = "enable_scanning",
                      !.io = @ \o << Io("in", 96, bat) >>]
        /\ serial' = serial \o info("main", "Keyboard BAT response: " \o AltHex(bat))
    /\ UNCHANGED <<ps2Unchanged, dev>>

\* Lines 223-226: the reset was not acknowledged with 0xFA.
Ps2NoAck ==
    /\ AtPs2("no_ack")
    /\ call' = [call EXCEPT !.pc = "enable_scanning"]
    /\ serial' = serial \o info("main", "Keyboard did not ACK reset as expected: "
                                         \o AltHex(LastRead(call.io)))
    /\ UNCHANGED <<ps2Unchanged, dev>>

\* Lines 228-233: wait_input_clear, 0xF4 to the keyboard, wait_output_set,
\* the answer read and logged.
Ps2EnableScanning ==
    /\ AtPs2("enable_scanning")
    /\ \E f1, f2 \in FirstReady, scan_ack \in AckBytes :
        /\ call' = [AfterWaits(call, <<f1, f2>>) EXCEPT !.pc = "final_unmask",
                      !.io = @ \o << Io("out", 96, 244), Io("in", 96, scan_ack) >>]
        /\ serial' = serial \o info("main", "Keyboard scanning ACK: " \o AltHex(scan_ack))
    /\ UNCHANGED <<ps2Unchanged, dev>>

\* Lines 235-239: IRQ1 unmasked once more, the closing line, return.
Ps2FinalUnmask ==
    /\ AtPs2("final_unmask")
    /\ \E master_mask \in MaskBytes :
        call' = [call EXCEPT !.pc = "returned", !.n = @ + 1,
                   !.io = @ \o << Io("in", 33, master_mask),
                                  Io("out", 33, UnmaskKeyboard(master_mask)) >>]
    /\ serial' = serial \o info("main", "PS/2 controller initialized")
    /\ UNCHANGED <<ps2Unchanged, dev>>

Ps2Next ==
    \/ Ps2RemapAndMask
    \/ Ps2Flush
    \/ Ps2DisableKeyboard
    \/ Ps2DisableMouse
    \/ Ps2ReadConfig
    \/ Ps2WriteConfig
    \/ Ps2EnableKeyboard
    \/ Ps2ResetKeyboard
    \/ Ps2ReadBat
    \/ Ps2NoAck
    \/ Ps2EnableScanning
    \/ Ps2FinalUnmask

Ps2Spec == Ps2Init /\ [][Ps2Next]_vars

\* The processor keeps executing ps2_init's instructions.
Ps2FairSpec == Ps2Init /\ [][Ps2Next]_vars /\ WF_vars(Ps2Next)

----------------------------------------------------------------------------
(* draw_bresenham, one loop iteration per step *)

\* Width in bits of isize in the line arithmetic.  The loop takes one step
\* per pixel, so the word is scaled further than UsizeBits; overflow of a
\* difference, of `abs` and of `2 * err` happens at every width.  Offsets into
\* the framebuffer are not scaled.
CoordBits == 4

CoordModulus == 2 ^ CoordBits
IsizeMin == -(CoordModulus \div 2)
IsizeMax == (CoordModulus \div 2) - 1

\* `v as isize` for a usize v
AsIsize(v) == IF v > IsizeMax THEN v - CoordModulus ELSE v

\* An isize result that does not fit the word.
Overflows(v) == v < IsizeMin \/ v > IsizeMax

\* The word a wrapping isize operation leaves for the exact result v.
WrapIsize(v) == ((v - IsizeMin) % CoordModulus) + IsizeMin

\* Endpoint coordinates: inside a framebuffer, the largest isize, the
\* smallest isize (as usize: 2^(bits-1)) and usize::MAX (-1 as isize).
Coordinates == { 0, 1, 2, IsizeMax, IsizeMax + 1, CoordModulus - 1 }

\* Lines 44-49: dx, dy, sx, sy and err; `overflow` when one of the
\* subtractions, an `abs`, the negation or the addition does not fit.
BresenhamSetup(x0, y0, x1, y1) ==
    LET xdiff == x1 - x0
        ydiff == y1 - y0
        xabs == Abs(WrapIsize(xdiff))
        yabs == Abs(WrapIsize(ydiff))
        dx == WrapIsize(xabs)
        negy == -WrapIsize(yabs)
        dy == WrapIsize(negy)
    IN  [dx |-> dx, dy |-> dy,
         sx |-> IF x0 < x1 THEN 1 ELSE -1,
         sy |-> IF y0 < y1 THEN 1 ELSE -1,
         err |-> WrapIsize(dx + dy),
         overflow |-> Overflows(xdiff) \/ Overflows(ydiff) \/ Overflows(xabs)
                      \/ Overflows(yabs) \/ Overflows(negy) \/ Overflows(dx + dy)]

\* Lines 66-74: e2 and the two conditional moves.
BresenhamAdvance(c) ==
    LET e2 == WrapIsize(2 * c.err)
        movex == e2 >= c.dy
        err1 == IF movex THEN WrapIsize(c.err + c.dy) ELSE c.err
        x == IF movex THEN WrapIsize(c.x + c.sx) ELSE c.x
        movey == e2 <= c.dx
        err2 == IF movey THEN WrapIsize(err1 + c.dx) ELSE err1
        y == IF movey THEN WrapIsize(c.y + c.sy) ELSE c.y
    IN  [x |-> x, y |-> y, err |-> err2,
         overflow |-> \/ Overflows(2 * c.err)
                      \/ movex /\ (Overflows(c.err + c.dy) \/ Overflows(c.x + c.sx))
                      \/ movey /\ (Overflows(err1 + c.dx) \/ Overflows(c.y + c.sy))]

\* Mutant of InFramebuffer: the lower bounds alone are tested.
InFramebufferNoUpper(x, y, fb) == x >= 0 /\ y >= 0

\* `x0 >= 0 && (x0 as usize) < fb.width && y0 >= 0 && (y0 as usize) < fb.height`
InFramebuffer(x, y, fb) == x >= 0 /\ x < fb.width /\ y >= 0 /\ y < fb.height

\* `fb.address as usize + ((y * fb.stride + x) * 4)`
PixelOffset(x, y, fb) == fb.address + (y * fb.stride + x) * 4

\* `pixel_ptr.write_volatile(0xFFFF_FFFF)`: four bytes of 0xFF.
WhitePixel(m, offset) ==
    [a \in DOMAIN m |-> IF a >= offset /\ a < offset + 4 THEN 255 ELSE m[a]]

\* Framebuffers the line is drawn into.
LineFramebuffers ==
    { fb \in WellFormedFramebufferInfos :
        /\ fb.address = 8 /\ fb.width = MaxFbWidth /\ fb.height = MaxFbHeight
        /\ fb.size = fb.stride * fb.height * 4 }

\* A caller is about to call draw_bresenham(x0, y0, x1, y1, fb) in a build
\* with or without overflow checks.
BresenhamInit ==
    /\ LibraryIdle
    /\ LOGGING_ENABLED = TRUE
    /\ mem = [a \in 0..(FbMemLen - 1) |-> StaleByte]
    /\ \E x0, y0, x1, y1 \in Coordinates, fb \in LineFramebuffers, profile \in { "debug", "release" } :
        call = [fn |-> "draw_bresenham", args |-> <<x0, y0, x1, y1>>, ret |-> 0, n |-> 0,
                fb |-> fb, profile |-> profile, pc |-> "entry",
                x |-> 0, y |-> 0, dx |-> 0, dy |-> 0, sx |-> 0, sy |-> 0, err |-> 0,
                pixels |-> {}]

AtBresenham(pc) == kpc = "library" /\ call.fn = "draw_bresenham" /\ call.pc = pc

\* Lines 43-49, no overflow or a build that wraps.
BresenhamEnter ==
    /\ AtBresenham("entry")
    /\ LET x0 == AsIsize(call.args[1])
           y0 == AsIsize(call.args[2])
           t == BresenhamSetup(x0, y0, AsIsize(call.args[3]), AsIsize(call.args[4]))
       IN  /\ ~(t.overflow /\ call.profile = "debug")
           /\ call' = [call EXCEPT !.pc = "loop", !.x = x0, !.y = y0, !.dx = t.dx, !.dy = t.dy,
                                   !.sx = t.sx, !.sy = t.sy, !.err = t.err]
    /\ UNCHANGED <<idleVars, LOGGING_ENABLED, serial, mem>>

\* Lines 43-49, an overflow in a build that checks: panic.
BresenhamEnterPanics ==
    /\ AtBresenham("entry")
    /\ BresenhamSetup(AsIsize(call.args[1]), AsIsize(call.args[2]),
                      AsIsize(call.args[3]), AsIsize(call.args[4])).overflow
    /\ call.profile = "debug"
    /\ call' = [call EXCEPT !.pc = "panicked"]
    /\ UNCHANGED <<idleVars, LOGGING_ENABLED, serial, mem>>

\* The pixel written at the top of an iteration, if any.
Plotted(c) ==
    IF InFramebuffer(c.x, c.y, c.fb)
    THEN { [x |-> c.x, y |-> c.y, offset |-> PixelOffset(c.x, c.y, c.fb)] }
    ELSE {}

MemPlotted(m, c) ==
    IF InFramebuffer(c.x, c.y, c.fb) THEN WhitePixel(m, PixelOffset(c.x, c.y, c.fb)) ELSE m

\* Lines 51-65: the pixel, then `break` at the end point.
BresenhamBreak ==
    /\ AtBresenham("loop")
    /\ call.x = AsIsize(call.args[3]) /\ call.y = AsIsize(call.args[4])
    /\ mem' = MemPlotted(mem, call)
    /\ call' = [call EXCEPT !.pc = "returned", !.n = @ + 1, !.pixels = @ \cup Plotted(call)]
    /\ UNCHANGED <<idleVars, LOGGING_ENABLED, serial>>

\* Lines 51-75: the pixel, no break, the moves.
BresenhamIterate ==
    /\ AtBresenham("loop")
    /\ ~(call.x = AsIsize(call.args[3]) /\ call.y = AsIsize(call.args[4]))
    /\ LET t == BresenhamAdvance(call) IN
        /\ ~(t.overflow /\ call.profile = "debug")
        /\ call' = [call EXCEPT !.x = t.x, !.y = t.y, !.err = t.err,
                                !.pixels = @ \cup Plotted(call)]
    /\ mem' = MemPlotted(mem, call)
    /\ UNCHANGED <<idleVars, LOGGING_ENABLED, serial>>

\* Lines 51-75: the pixel, then an overflow in a build that checks: panic.
BresenhamIteratePanics ==
    /\ AtBresenham("loop")
    /\ ~(call.x = AsIsize(call.args[3]) /\ call.y = AsIsize(call.args[4]))
    /\ BresenhamAdvance(call).overflow
    /\ call.profile = "debug"
    /\ mem' = MemPlotted(mem, call)
    /\ call' = [call EXCEPT !.pc = "panicked", !.pixels = @ \cup Plotted(call)]
    /\ UNCHANGED <<idleVars, LOGGING_ENABLED, serial>>

BresenhamNext ==
    \/ BresenhamEnter
    \/ BresenhamEnterPanics
    \/ BresenhamBreak
    \/ BresenhamIterate
    \/ BresenhamIteratePanics

\* The processor keeps executing the loop.
BresenhamSpec == BresenhamInit /\ [][BresenhamNext]_vars /\ WF_vars(BresenhamNext)

----------------------------------------------------------------------------
(* files::ext2: find_file_in_dir *)

\* `1024 << self.superblock.log_block_size`
BaseBlockSize == 1024
LogBlockSizes == { 0, 2 }
BlockSizeOf(log_block_size) == BaseBlockSize * (2 ^ log_block_size)
\* Lengths of dir_block_buf: one small block, and the root directory buffer
\* of read_file_first_block.
DirBufLens == { 1024, 4096 }
\* size_of::<Ext2DirEntry>(): inode u32, rec_len u16, name_len u8, file_type u8.
DirEntryHeaderLen == 8
\* `blocks.iter().take(12)` of `block: [u32; 15]`
DirectBlocks == 12
InodeBlockPointers == 15

\* Little-endian fields of the packed entry.
LE16(b, off) == b[off] + 256 * b[off + 1]
LE32(b, off) == b[off] + 256 * b[off + 1] + 65536 * b[off + 2] + 16777216 * b[off + 3]
BytesLE(v, n) == [i \in 1..n |-> (v \div (256 ^ (i - 1))) % 256]

\* A directory entry as mkfs lays it out: header, then the name.
DirEntry(inode, rec_len, name) == [inode |-> inode, rec_len |-> rec_len, name |-> name]
EntryBytes(e) == BytesLE(e.inode, 4) \o BytesLE(e.rec_len, 2) \o <<Len(e.name), 1>> \o e.name

PutBytes(f, off, bytes) ==
    [a \in DOMAIN f |-> IF off <= a /\ a < off + Len(bytes) THEN bytes[a - off + 1] ELSE f[a]]

\* The bytes of a block holding the entries chained by their record lengths
\* (an entry of record length 0 is followed by the next one all the same).
RECURSIVE LayOut(_, _, _)
LayOut(f, off, entries) ==
    IF entries = <<>> THEN f
    ELSE LayOut(PutBytes(f, off, EntryBytes(Head(entries))),
                off + (IF Head(entries).rec_len = 0 THEN 12 ELSE Head(entries).rec_len),
                Tail(entries))

DirBlock(entries, bs) == LayOut([a \in 0..(bs - 1) |-> 0], 0, entries)

NameA == <<97>>
NameB == <<98>>

\* Contents of the first directory block: a first entry, then an entry "b"
\* filling the rest of the block; and a deleted entry before a live one.
FirstBlockLayouts(bs) ==
    { <<DirEntry(i, l, n), DirEntry(300, IF l = 0 THEN 12 ELSE bs - l, NameB)>> :
        i \in { 0, 11 }, n \in { NameA, NameB }, l \in { 0, 12, bs - 8, bs - 4 } }
    \cup { <<DirEntry(11, 12, NameA), DirEntry(0, 12, NameB), DirEntry(300, bs - 24, NameB)>> }

\* Contents of a later directory block.
LaterBlockLayouts(bs) == { <<DirEntry(0, bs, NameB)>>, <<DirEntry(301, bs, NameB)>> }

\* What BlockDevice::read_block can give back besides the block.
ReadErrors == { "IoError", "Unsupported" }

\* A block of the device: read_block gives its entries' bytes or an error.
Readable(entries) == [err |-> "none", entries |-> entries]
Unreadable(e) == [err |-> e, entries |-> <<>>]

\* Result<u32, Ext2Error>
FindResult(kind, inode) == [kind |-> kind, inode |-> inode]

\* The directory inode's block pointers: block 20 first, block 21 as the
\* twelfth and as the thirteenth pointer.
DirBlockArrays ==
    { [i \in 1..InodeBlockPointers |->
         IF i = 1 THEN p1 ELSE IF i = DirectBlocks THEN p12
         ELSE IF i = DirectBlocks + 1 THEN p13 ELSE 0] :
      p1 \in { 0, 20 }, p12 \in { 0, 21 }, p13 \in { 0, 21 } }

Ext2Init ==
    /\ LibraryIdle
    /\ LOGGING_ENABLED = TRUE
    /\ \E log_block_size \in LogBlockSizes, len \in DirBufLens, blocks \in DirBlockArrays :
        LET bs == BlockSizeOf(log_block_size) IN
        \E first \in { Readable(l) : l \in FirstBlockLayouts(bs) }
                       \cup { Unreadable(e) : e \in ReadErrors },
           later \in { Readable(l) : l \in LaterBlockLayouts(bs) } \cup { Unreadable("IoError") } :
            /\ mem = [a \in 0..(len - 1) |-> 0]
            /\ call = [fn |-> "find_file_in_dir", args |-> <<NameB>>, ret |-> FindResult("none", 0), n |-> 0,
                       block_size |-> bs, blocks |-> blocks,
                       device |-> [b \in { 20, 21 } |-> IF b = 20 THEN first ELSE later],
                       bi |-> 1, offset |-> 0, pc |-> "blocks"]

AtFind(pc) == kpc = "library" /\ call.fn = "find_file_in_dir" /\ call.pc = pc

BufLen == Cardinality(DOMAIN mem)
CurrentBlock == call.blocks[call.bi]

\* Line 224: the pointers are used up.
FindNotFound ==
    /\ AtFind("blocks")
    /\ call.bi > DirectBlocks
    /\ call' = [call EXCEPT !.pc = "returned", !.ret = FindResult("NotFound", 0)]
    /\ UNCHANGED <<idleVars, LOGGING_ENABLED, serial, mem>>

\* Lines 201-203: `continue` on a null pointer.
FindSkipBlock ==
    /\ AtFind("blocks")
    /\ call.bi <= DirectBlocks
    /\ CurrentBlock = 0
    /\ call' = [call EXCEPT !.bi = @ + 1]
    /\ UNCHANGED <<idleVars, LOGGING_ENABLED, serial, mem>>

\* Line 205: `&mut dir_block_buf[..block_size]` on a shorter buffer.
FindBufferTooShort ==
    /\ AtFind("blocks")
    /\ call.bi <= DirectBlocks
    /\ CurrentBlock # 0
    /\ call.block_size > BufLen
    /\ call' = [call EXCEPT !.pc = "panicked"]
    /\ UNCHANGED <<idleVars, LOGGING_ENABLED, serial, mem>>

\* Lines 204-205: read_block fails, `?` returns the error.
FindReadError ==
    /\ AtFind("blocks")
    /\ call.bi <= DirectBlocks
    /\ CurrentBlock # 0
    /\ call.block_size <= BufLen
    /\ call.device[CurrentBlock].err \in ReadErrors
    /\ call' = [call EXCEPT !.pc = "returned", !.ret = FindResult(call.device[CurrentBlock].err, 0)]
    /\ UNCHANGED <<idleVars, LOGGING_ENABLED, serial, mem>>

\* Lines 204-206: read_block fills the first block_size bytes of the buffer.
FindReadBlock ==
    /\ AtFind("blocks")
    /\ call.bi <= DirectBlocks
    /\ CurrentBlock # 0
    /\ call.block_size <= BufLen
    /\ call.device[CurrentBlock].err \notin ReadErrors
    /\ LET block == DirBlock(call.device[CurrentBlock].entries, call.block_size) IN
        mem' = [a \in DOMAIN mem |-> IF a < call.block_size THEN block[a] ELSE mem[a]]
    /\ call' = [call EXCEPT !.pc = "entries", !.offset = 0, !.n = @ + 1]
    /\ UNCHANGED <<idleVars, LOGGING_ENABLED, serial>>

\* Line 207: the `while` condition fails.
FindBlockDone ==
    /\ AtFind("entries")
    /\ call.offset >= call.block_size
    /\ call' = [call EXCEPT !.pc = "blocks", !.bi = @ + 1]
    /\ UNCHANGED <<idleVars, LOGGING_ENABLED, serial, mem>>

\* The entry header lies inside the buffer.
HeaderInside == call.offset + DirEntryHeaderLen <= BufLen
entry_inode == LE32(mem, call.offset)
entry_rec_len == LE16(mem, call.offset + 4)
entry_name_len == mem[call.offset + 6]
\* Line 212: the bounds of name_slice.
NameStart == call.offset + DirEntryHeaderLen
NameEnd == NameStart + entry_name_len
name_slice == [i \in 1..entry_name_len |-> mem[NameStart + i - 1]]

InEntryLoop == AtFind("entries") /\ call.offset < call.block_size

\* Lines 209-211: `break` on a free entry.
FindStopAtFreeEntry ==
    /\ InEntryLoop
    /\ HeaderInside
    /\ entry_inode = 0
    /\ call' = [call EXCEPT !.pc = "blocks", !.bi = @ + 1]
    /\ UNCHANGED <<idleVars, LOGGING_ENABLED, serial, mem>>

\* Line 212: the slice of the name reaches past the buffer.
FindNamePanics ==
    /\ InEntryLoop
    /\ HeaderInside
    /\ entry_inode # 0
    /\ NameEnd > BufLen
    /\ call' = [call EXCEPT !.pc = "panicked"]
    /\ UNCHANGED <<idleVars, LOGGING_ENABLED, serial, mem>>

\* Lines 213-217: the name is the requested one (a name that is not UTF-8 is
\* not compared, and is not the requested &str either).
FindMatch ==
    /\ InEntryLoop
    /\ HeaderInside
    /\ entry_inode # 0
    /\ NameEnd <= BufLen
    /\ name_slice = call.args[1]
    /\ call' = [call EXCEPT !.pc = "returned", !.ret = FindResult("Ok", entry_inode)]
    /\ UNCHANGED <<idleVars, LOGGING_ENABLED, serial, mem>>

\* Lines 218-220: `break` on a record length of 0.
FindStopAtZeroLength ==
    /\ InEntryLoop
    /\ HeaderInside
    /\ entry_inode # 0
    /\ NameEnd <= BufLen
    /\ name_slice # call.args[1]
    /\ entry_rec_len = 0
    /\ call' = [call EXCEPT !.pc = "blocks", !.bi = @ + 1]
    /\ UNCHANGED <<idleVars, LOGGING_ENABLED, serial, mem>>

\* Line 221: on to the next entry.
FindAdvance ==
    /\ InEntryLoop
    /\ HeaderInside
    /\ entry_inode # 0
    /\ NameEnd <= BufLen
    /\ name_slice # call.args[1]
    /\ entry_rec_len # 0
    /\ call' = [call EXCEPT !.offset = @ + entry_rec_len]
    /\ UNCHANGED <<idleVars, LOGGING_ENABLED, serial, mem>>

\* Line 208: the reference covers bytes past the end of the buffer. What the
\* read past the end gives is not defined: the bytes inside the buffer are
\* read as they are and the others are anything. A zero inode leaves the
\* block; any other makes the slice of line 212 start past the buffer.
FindHeaderPastBuffer ==
    /\ InEntryLoop
    /\ ~HeaderInside
    /\ \E past \in { 0, 255 } :
        LET byte(a) == IF a < BufLen THEN mem[a] ELSE past
            inode == byte(call.offset) + 256 * byte(call.offset + 1)
                     + 65536 * byte(call.offset + 2) + 16777216 * byte(call.offset + 3)
        IN  call' = IF inode = 0
                    THEN [call EXCEPT !.pc = "blocks", !.bi = @ + 1]
                    ELSE [call EXCEPT !.pc = "panicked"]
    /\ UNCHANGED <<idleVars, LOGGING_ENABLED, serial, mem>>

Ext2Next ==
    \/ FindNotFound
    \/ FindSkipBlock
    \/ FindBufferTooShort
    \/ FindReadError
    \/ FindReadBlock
    \/ FindBlockDone
    \/ FindStopAtFreeEntry
    \/ FindNamePanics
    \/ FindMatch
    \/ FindStopAtZeroLength
    \/ FindAdvance
    \/ FindHeaderPastBuffer

\* The processor keeps executing the search.
Ext2Spec == Ext2Init /\ [][Ext2Next]_vars /\ WF_vars(Ext2Next)

----------------------------------------------------------------------------
(* C21 .. C30 *)

\* The output functions of the serial_logging crate.
SerialOutputFns ==
    { "serial_write_byte", "serial_write_str", "serial_write_hex", "info", "warn", "error",
      "info_hex", "_print", "kprint" }

\* C21 (as claimed): logging is enabled before the first call; a call of an
\* output function made while logging is disabled writes nothing to the
\* serial port; a call made while it is enabled writes.
C21_DisabledLoggingIsSilent ==
    [][ /\ call.n = 0 => LOGGING_ENABLED
        /\ call'.fn \in SerialOutputFns =>
             /\ ~LOGGING_ENABLED => serial' = serial
             /\ LOGGING_ENABLED => Len(serial') > Len(serial)
      ]_vars

\* Text s begins with text p.
StartsWith(s, p) == Len(s) >= Len(p) /\ SubSeq(s, 1, Len(p)) = p

\* Text s ends with text p.
EndsWith(s, p) == Len(s) >= Len(p) /\ SubSeq(s, Len(s) - Len(p) + 1, Len(s)) = p

LevelPrefixes == { "[INFO]", "[WARNING]", "[ERROR]" }

\* What one writer ("main", "irq", "exc") has written, in order.
WrittenBy(w) == SelectSeq(serial, LAMBDA o : o.by = w)

\* C22 (as claimed): in what the main flow, the device-interrupt handlers
\* and the exception handlers (panic report included) each write, every
\* piece that begins a line begins with [INFO], [WARNING] or [ERROR], and
\* what a stopped exception handler wrote ends with a newline.
C22_LinesPrefixedAndTerminated ==
    \A w \in { "main", "irq", "exc" } :
        LET t == WrittenBy(w)
        IN  /\ \A k \in 1..Len(t) :
                 (k = 1 \/ EndsWith(t[k - 1].s, "\n")) =>
                     \E p \in LevelPrefixes : StartsWith(t[k].s, p)
            /\ (w = "exc" /\ exc.pc \in { "cli", "hlt" } /\ Len(t) > 0) =>
                 EndsWith(t[Len(t)].s, "\n")

\* C23: every call of init_gdt loads the descriptor table, and each load is
\* followed at once by the writes of CS, SS, DS and ES, in this order; once
\* init_gdt has returned, CS holds the kernel code selector (index 1), SS,
\* DS and ES hold the kernel data selector (index 2), and each of the four
\* holds a selector of the loaded table, not what the firmware left.
C23_SegmentRegistersReloaded ==
    /\ Count("init_gdt") = Count("gdt.load")
    /\ \A k \in 1..Len(ktrace) :
          ktrace[k] = "gdt.load" =>
              /\ k + 4 <= Len(ktrace)
              /\ SubSeq(ktrace, k + 1, k + 4)
                   = <<"CS::set_reg", "SS::set_reg", "DS::set_reg", "ES::set_reg">>
    /\ Occurs("init_gdt") =>
          /\ segment_registers.cs = Selector(1, 0)
          /\ segment_registers.ss = Selector(2, 0)
          /\ segment_registers.ds = Selector(2, 0)
          /\ segment_registers.es = Selector(2, 0)
          /\ GDT.descriptors[1] = "kernel_code_segment"
          /\ GDT.descriptors[2] = "kernel_data_segment"
          /\ \A reg \in { "cs", "ss", "ds", "es" } :
                \E i \in 1..Len(GDT.selectors) : segment_registers[reg] = GDT.selectors[i]

C23_Witness ==
    /\ Count("init_gdt") >= 2
    /\ Occurs("init_idt")
    /\ segment_registers.es = Selector(2, 0)

DeviceHandlers == { p[2] : p \in HardwareInterruptHandlers }

\* C24: once the vector table is built, no device-interrupt handler sits on
\* a vector below 32 and the timer and keyboard handlers sit on vectors 32
\* and 33; once ps2_init has run the controllers' offsets are 0x20 and 0x28,
\* so that line 0 leads to the timer handler and line 1 to the keyboard
\* handler; the offsets are in place whenever the kernel runs with
\* interrupts enabled, and a device interrupt that was taken runs the
\* handler of its line.
C24_DeviceVectorsMatchRemap ==
    /\ IDT.set =>
          /\ \A v \in Vectors : IDT.entries[v].handler \in DeviceHandlers => v >= 32
          /\ IDT.entries[32].handler = "timer_interrupt_handler"
          /\ IDT.entries[33].handler = "keyboard_interrupt_handler"
    /\ Occurs("PIC remap") =>
          /\ dev.pic = [master |-> 32, slave |-> 40]
          /\ IDT.entries[dev.pic.master].handler = "timer_interrupt_handler"
          /\ IDT.entries[dev.pic.master + 1].handler = "keyboard_interrupt_handler"
    /\ Before("PIC remap", "interrupts::enable")
    /\ Before("PIC remap", "sti")
    /\ (kpc \in KernelEntryPcs /\ (interrupt_flag \/ irq # "none")) => Occurs("PIC remap")
    /\ irq # "none" => irq = (IF dev.line = 0 THEN "timer" ELSE "keyboard")

C24_Witness ==
    /\ irq = "keyboard"
    /\ dev.line = 1
    /\ dev.count = 2
    /\ dev.pic.master = 32

\* The bytes of the framebuffer as its description gives them.
FbRange(fb) == { a \in 0..(FbMemLen - 1) : fb.address <= a /\ a < fb.address + fb.size }

StraddlingHeader == Ph("Load", 8192, 32, 64, 2105328, FALSE)

\* The executable header at 0x20_1000 with file_size = 100 and mem_size = 4096.
AlignedCodeHeader == Ph("Load", 4096, 100, 4096, 2101248, TRUE)

\* The allocation requests load_kernel has made for header i.
AllocationsFor(i) ==
    { k \in 1..Len(log) : log[k].op = "allocate_pages" /\ log[k].ph = i }

\* C26: for the loadable segment at 0x20_1FF0 with file_size = 32 and
\* mem_size = 64 load_kernel computes aligned address 0x20_1000, page_offset
\* 0xFF0 and total_size 0x1030, and requests 2 pages at 0x20_1000.
C26_StraddlingSegmentNumbers ==
    /\ (seg.ph # 0 /\ disk.ph[seg.ph] = StraddlingHeader) =>
        /\ seg.aligned_virt_addr = 2101248
        /\ seg.page_offset = 4080
        /\ seg.total_size = 4144
        /\ seg.num_pages = 2
        /\ AllocationsFor(seg.ph) # {}
    /\ \A k \in 1..Len(log) :
        (log[k].op = "allocate_pages" /\ disk.ph[log[k].ph] = StraddlingHeader) =>
            log[k].addr = 2101248 /\ log[k].len = 2

C26_Witness ==
    /\ seg.ph # 0
    /\ disk.ph[seg.ph] = StraddlingHeader
    /\ \E k \in AllocationsFor(seg.ph) : log[k].kind = "LOADER_DATA"

\* The image of the scenario has been taken through its one header.
OneAlignedCodeSegment == disk.elf /\ disk.ph = <<AlignedCodeHeader>> /\ seg.ph = 1

\* C27 (amended): for an image with one loadable, executable segment at
\* 0x20_1000 with file_size = 100 and mem_size = 4096 load_kernel requests
\* one page at 0x20_1000, typed LOADER_CODE, and makes no other request.
C27_OnePageOfCode ==
    OneAlignedCodeSegment =>
        /\ seg.aligned_virt_addr = 2101248
        /\ seg.num_pages = 1
        /\ seg.mem_type = "LOADER_CODE"
        /\ Cardinality(AllocationsFor(1)) = 1
        /\ \A k \in 1..Len(log) : log[k].op = "allocate_pages" =>
            /\ log[k].addr = 2101248
            /\ log[k].len = 1
            /\ log[k].kind \in { "LOADER_CODE", "Err" }

C27_Witness ==
    /\ OneAlignedCodeSegment
    /\ \E k \in AllocationsFor(1) : log[k].kind = "LOADER_CODE"
    /\ phIdx = 2

\* C27 as stated: two pages are allocated for that segment.
C27_TwoPagesAsClaimed ==
    OneAlignedCodeSegment =>
        /\ seg.num_pages = 2
        /\ seg.mem_type = "LOADER_CODE"
        /\ \A k \in AllocationsFor(1) : log[k].addr = 2101248 /\ log[k].len = 2

\* A call of fn is made in this step.
Calls(fn) == call.fn = "none" /\ call'.fn = fn

\* C28: after memmove(dest, src, count), whether or not the two ranges
\* overlap and in whichever direction, each dest[i] with 0 <= i < count holds
\* what src[i] held before the call, and no byte outside [dest, dest + count)
\* has changed.
C28_MemmoveCopiesAsIfBuffered ==
    [][Calls("memmove") =>
        LET dest == call'.args[1]
            src == call'.args[2]
            count == call'.args[3]
        IN  /\ \A i \in 0..(count - 1) : mem'[dest + i] = mem[src + i]
            /\ \A a \in 0..(MemLen - 1) :
                (a < dest \/ a >= dest + count) => mem'[a] = mem[a]]_vars

\* A move to the next higher address of two or more bytes that were not all
\* equal: the case a forward copy gets wrong.
C28_Witness ==
    /\ call.fn = "memmove"
    /\ call.args[1] = call.args[2] + 1
    /\ call.args[3] >= 2
    /\ mem[call.args[1]] # mem[call.args[1] + 1]

\* The first index below n at which the two areas differ, n when there is none.
FirstDifference(m, s1, s2, n) ==
    LET D == { i \in 0..(n - 1) : m[s1 + i] # m[s2 + i] }
    IN  IF D = {} THEN n ELSE CHOOSE i \in D : \A j \in D : i <= j

\* C29: memcmp(s1, s2, n) returns 0 exactly when the first n bytes of the two
\* areas are equal (n = 0 included); otherwise it returns s1[i] - s2[i], the
\* difference of the unsigned byte values at the first index where they
\* differ, so that its sign orders the areas lexicographically; the memory is
\* left as it was.
C29_MemcmpFirstDifference ==
    [][Calls("memcmp") =>
        LET s1 == call'.args[1]
            s2 == call'.args[2]
            n == call'.args[3]
            i == FirstDifference(mem, s1, s2, n)
        IN  /\ mem' = mem
            /\ (call'.ret = 0) <=> (i = n)
            /\ i < n => call'.ret = mem[s1 + i] - mem[s2 + i]
            /\ i < n => ((call'.ret < 0) <=> (mem[s1 + i] < mem[s2 + i]))]_vars

\* A comparison decided after an equal first byte by 255 against a smaller byte.
C29_Witness ==
    /\ call.fn = "memcmp"
    /\ call.args[3] >= 2
    /\ call.args[1] # call.args[2]
    /\ mem[call.args[1]] = mem[call.args[2]]
    /\ call.ret >= 254

\* C30: syscall_handler returns 42 for the Test number (0) and u64::MAX for
\* every other number, whatever its six arguments are.
C30_SyscallDispatch ==
    call.fn = "syscall_handler" =>
        /\ call.args[1] = 0 => call.ret = 42
        /\ call.args[1] # 0 => call.ret = U64_MAX

C30_Witness ==
    /\ call.fn = "syscall_handler"
    /\ call.args[1] = 999
    /\ \A k \in 2..7 : call.args[k] # 0
    /\ call.ret = U64_MAX

----------------------------------------------------------------------------
(* C31 .. C38 *)

\* C31: at boot_system's `call`, RDI holds the address of the framebuffer
\* description and the call target is the entry address load_kernel returned,
\* whichever registers the two input operands were given; and the code at the
\* entry runs with RDI unchanged.
C31_CallPassesPointerToEntry ==
    /\ bpc = "asm_call" =>
        /\ rdi = framebuffer_info
        /\ callTarget = kernel_entry
    /\ bpc = "transferred" =>
        /\ rdi = framebuffer_info
        /\ callTarget = kernel_entry
        /\ kpc # "wild"

\* C32: every byte load_kernel writes for a loadable segment, copied or
\* zeroed, lies inside the pages allocated for that segment,
\* [aligned_virt_addr, aligned_virt_addr + num_pages * 4096), whatever
\* file_size and mem_size its header declares.
C32_WritesInsideAllocation ==
    \A k \in 1..Len(log) :
        log[k].op \in { "copy", "zero" } =>
            \E a \in AllocationsFor(log[k].ph) :
                /\ a < k
                /\ log[a].kind # "Err"
                /\ log[a].addr <= log[k].addr
                /\ log[k].addr + log[k].len <= log[a].addr + log[a].len * PageSize

\* Bit b of a byte.
Bit(v, b) == (v \div (2 ^ b)) % 2

\* Where in io the command c was written to the controller's command port.
CommandAt(io, c) == { k \in 1..Len(io) : io[k] = Io("out", 100, c) }

\* C33: the configuration byte ps2_init writes back is the byte it read with
\* bit 0 set, bits 1 and 6 cleared and every other bit as read.
C33_ConfigByteWrittenBack ==
    call.fn = "ps2_init" =>
        \A k \in CommandAt(call.io, 96) :
            k < Len(call.io) =>
                LET read == call.io[k - 1].value
                    written == call.io[k + 1].value
                IN  /\ call.io[k - 1] = Io("in", 96, read)
                    /\ call.io[k + 1] = Io("out", 96, written)
                    /\ \A b \in 0..7 :
                        Bit(written, b) = IF b = 0 THEN 1
                                          ELSE IF b \in { 1, 6 } THEN 0
                                          ELSE Bit(read, b)

\* A byte sent to the PS/2 controller or to the keyboard.
IsPs2Write(e) == e.op = "out" /\ e.port \in { 96, 100 }

\* An access to one of the two interrupt controllers.
IsPicAccess(e) == e.port \in { 32, 33, 160, 161 }

\* s is a prefix of t.
IsPrefix(s, t) == Len(s) <= Len(t) /\ s = SubSeq(t, 1, Len(s))

\* The bytes ps2_init sends to the controller and the keyboard, in the
\* documented order; `config` is the byte written back.
DocumentedWrites(config) ==
    << Io("out", 100, 173), Io("out", 100, 167), Io("out", 100, 32), Io("out", 100, 96),
       Io("out", 96, config), Io("out", 100, 174), Io("out", 96, 255), Io("out", 96, 244) >>

\* The reads of the data port between the keyboard reset and the next write.
ReadsAfterReset(io) ==
    LET R == { k \in 1..Len(io) : io[k] = Io("out", 96, 255) }
    IN  IF R = {} THEN <<>>
        ELSE LET k == CHOOSE k \in R : TRUE
                 N == { j \in (k + 1)..Len(io) : io[j].op = "out" }
                 stop == IF N = {} THEN Len(io) + 1 ELSE CHOOSE j \in N : \A i \in N : j <= i
             IN  SubSeq(io, k + 1, stop - 1)

\* C34: whatever the devices answer, ps2_init issues its steps in the
\* documented order: the interrupt controllers remapped and masked, the output
\* buffer flushed, 0xAD, 0xA7, 0x20 and the configuration read, 0x60 and the
\* configuration written, 0xAE, 0xFF, 0xF4, the final unmask of the keyboard
\* line; 0xAE is never sent before the configuration byte has been written,
\* and the self-test response is read only after a reset answered with 0xFA.
C34_DocumentedOrder ==
    (call.fn = "ps2_init" /\ call.pc # "pic") =>
        LET io == call.io
            writes == SelectSeq(io, IsPs2Write)
            reads == ReadsAfterReset(io)
        IN  /\ \A k \in 1..11 : IsPicAccess(io[k])
            /\ io[12].op = "in" /\ io[12].port = 96
            /\ Len(io) > 12 => (io[13].op = "in" /\ io[13].port = 96)
            /\ \E config \in 0..255 : IsPrefix(writes, DocumentedWrites(config))
            /\ \A k \in CommandAt(io, 174) :
                \E j \in CommandAt(io, 96) : j + 1 < k /\ io[j + 1].op = "out" /\ io[j + 1].port = 96
            /\ Len(reads) <= 2
            /\ Len(reads) = 2 => reads[1].value = 250
            /\ (call.pc \in { "enable_scanning", "final_unmask", "returned" } /\ reads[1].value = 250)
                 => Len(reads) = 2
            /\ \A k \in 14..Len(io) : IsPicAccess(io[k]) => call.pc = "returned" /\ k >= Len(io) - 1
            /\ call.pc = "returned" =>
                /\ Len(writes) = 8
                /\ io[Len(io) - 1].op = "in" /\ io[Len(io) - 1].port = 33
                /\ io[Len(io)] = Io("out", 33, UnmaskKeyboard(io[Len(io) - 1].value))

C34_Witness ==
    /\ call.fn = "ps2_init"
    /\ call.pc = "returned"
    /\ call.timed_out
    /\ Len(ReadsAfterReset(call.io)) = 2

\* C35: ps2_init returns whatever the status port shows: no wait reads the
\* status port more than 10000 times, and after a wait that ran out the next
\* commands are sent all the same, nothing but [INFO] lines is logged, and the
\* function comes to its end.
C35_Ps2InitTerminates ==
    /\ [](call.fn = "ps2_init" =>
            /\ call.max_polls <= PollLimit
            /\ \A k \in 1..Len(serial) : serial[k].s \notin { "[ERROR] ", "[WARNING] " }
            /\ call.pc = "returned" =>
                /\ Len(SelectSeq(call.io, IsPs2Write)) = 8
                /\ call.waits \in { 12, 13 })
    /\ <>(call.fn = "ps2_init" /\ call.pc = "returned")

C35_Witness ==
    /\ call.fn = "ps2_init"
    /\ call.pc = "returned"
    /\ call.timed_out
    /\ call.max_polls = PollLimit
    /\ call.waits = 12

\* The text was written to the diagnostic channel.
Logged(text) == \E k \in 1..Len(serial) : serial[k].s = text

\* C36: entered with a null framebuffer pointer, kernel_entry never reads
\* through the pointer and never writes to a framebuffer, reports the null
\* pointer on the diagnostic channel, and still finishes bring-up and comes
\* to rest in its main loop with interrupts enabled.
C36_NullPointerBringUp ==
    /\ [](rdi = 0 =>
            /\ ~Occurs("read fb_info")
            /\ ~Occurs("write framebuffer")
            /\ (kpc \in KernelEntryPcs \ { "init_allocator", "init_gdt", "init_interrupts",
                                           "ps2_init", "log_framebuffer_info" })
                 => Logged("FramebufferInfo pointer is null")
            /\ (kpc \in { "interrupts_enable", "info_level", "info_text", "info_crlf",
                          "sti", "hlt", "halted" })
                 => /\ Logged("FramebufferInfo pointer is null, cannot fill buffer")
                    /\ Logged("[WARNING] "))
    /\ (rdi = 0 /\ disk.code = "naked_start")
         ~> (kpc = "halted" /\ interrupt_flag /\ gdtLoaded /\ idtLoaded /\ heapInit = 1)

C36_Witness ==
    /\ rdi = 0
    /\ kpc = "halted"
    /\ interrupt_flag
    /\ dev.count > 0
    /\ Logged("FramebufferInfo pointer is null, cannot fill buffer")

\* C37: draw_bresenham comes to its end for every pair of endpoints; it
\* writes only pixels with 0 <= x < width and 0 <= y < height, each at byte
\* offset (y * stride + x) * 4 from the framebuffer's address; and when both
\* endpoints lie inside the framebuffer both endpoint pixels are written.
C37_BresenhamTerminatesInBounds ==
    /\ [](call.fn = "draw_bresenham" =>
            LET fb == call.fb IN
            /\ \A p \in call.pixels :
                /\ 0 <= p.x /\ p.x < fb.width /\ 0 <= p.y /\ p.y < fb.height
                /\ p.offset = fb.address + (p.y * fb.stride + p.x) * 4
            /\ \A a \in DOMAIN mem :
                mem[a] # StaleByte => \E p \in call.pixels : p.offset <= a /\ a < p.offset + 4
            /\ (call.pc = "returned" /\ call.args[1] < fb.width /\ call.args[2] < fb.height
                /\ call.args[3] < fb.width /\ call.args[4] < fb.height) =>
                 \A e \in { <<call.args[1], call.args[2]>>, <<call.args[3], call.args[4]>> } :
                    \E p \in call.pixels : p.x = e[1] /\ p.y = e[2])
    /\ <>(call.fn = "draw_bresenham" /\ call.pc = "returned")

\* An entry of the block b at off that lies inside the block, header and name.
EntryInside(b, off, bs) ==
    /\ off + DirEntryHeaderLen <= bs
    /\ off + DirEntryHeaderLen + b[off + 6] <= bs

NameAt(b, off) == [i \in 1..b[off + 6] |-> b[off + DirEntryHeaderLen + i - 1]]

\* The inode of the first entry of the block named name, 0 when the entries
\* end (free entry, record length 0, end of block) before one is.
RECURSIVE FirstNamed(_, _, _, _)
FirstNamed(b, off, bs, name) ==
    IF off >= bs \/ ~EntryInside(b, off, bs) \/ LE32(b, off) = 0 THEN 0
    ELSE IF NameAt(b, off) = name THEN LE32(b, off)
    ELSE IF LE16(b, off + 4) = 0 THEN 0
    ELSE FirstNamed(b, off + LE16(b, off + 4), bs, name)

\* The result over the blocks of the pointers i .. 12.
RECURSIVE SearchFrom(_, _)
SearchFrom(c, i) ==
    IF i > DirectBlocks THEN FindResult("NotFound", 0)
    ELSE IF c.blocks[i] = 0 THEN SearchFrom(c, i + 1)
    ELSE IF c.device[c.blocks[i]].err \in ReadErrors
         THEN FindResult(c.device[c.blocks[i]].err, 0)
    ELSE LET inode == FirstNamed(DirBlock(c.device[c.blocks[i]].entries, c.block_size), 0,
                                 c.block_size, c.args[1])
         IN  IF inode # 0 THEN FindResult("Ok", inode) ELSE SearchFrom(c, i + 1)

\* C38 (as claimed): find_file_in_dir terminates for every directory block
\* content: a step of the entry loop returns, stops at an entry whose inode
\* or record length is 0, or advances the offset by a positive record length;
\* the search returns the inode of the first entry with the requested name,
\* NotFound when the blocks of the first 12 pointers hold none, and a device
\* read error as it is.
C38_FindFileInDirTerminates ==
    /\ [][(call.fn = "find_file_in_dir" /\ call.pc = "entries" /\ call.offset < call.block_size) =>
            \/ call'.pc = "returned"
            \/ call'.pc = "blocks" /\ (entry_inode = 0 \/ entry_rec_len = 0)
            \/ call'.pc = "entries" /\ entry_rec_len > 0
               /\ call'.offset = call.offset + entry_rec_len]_vars
    /\ [](call.fn = "find_file_in_dir" /\ call.pc = "returned" => call.ret = SearchFrom(call, 1))
    /\ <>(call.fn = "find_file_in_dir" /\ call.pc = "returned")

============================================================================
